---- MODULE Spec2Model ----
(***************************************************************************)
(* Model of the construction-project synchronisation engine:               *)
(*   scripts/workflows/construction_workflow.py  (GitManager,              *)
(*       GitHubManager, ProjectStateManager, ConstructionWorkflow)         *)
(*   scripts/utils/git_operations.py             (GitOperations)           *)
(*   scripts/project/project_manager.py          (photo sync helpers)      *)
(*   scripts/interfaces/photo_client_interface.py (ProjectExtractor)       *)
(*   scripts/clients/cloudinary_client.py        (CloudinaryHasher)        *)
(*                                                                         *)
(* Strings are modelled as sequences of character codes where their        *)
(* content matters (image ids, urls); a python None is modelled as 0.      *)
(* The results of a python call are "True", "False", "None" or "raise".    *)
(***************************************************************************)
EXTENDS Integers, Sequences, FiniteSets, TLC

VARIABLES
    listing,          \* photo source: project names returned by get_construction_projects
    remoteImages,     \* photo source: project name -> sequence of image indices (ImagePool)
    today,            \* the date datetime.now() returns
    issues,           \* issue tracker: project names of the issues created so far (number = index)
    gitLocal,         \* working copy: set of local branches
    gitRemote,        \* origin: set of remote branches
    gitHead,          \* working copy: the checked-out branch
    fileExists,       \* state file: does it exist
    fileState,        \* state file: its content, a JSON value
    pc,               \* ConstructionWorkflow.run: "idle" (not running) or "loop" (in the for loop)
    state,            \* run: the in-memory state dict
    projects,         \* run: construction_projects
    idx,              \* run: index of the next project of the for loop
    current_projects, \* run: current_projects
    result,           \* outcome of the last run: "none", "True", "False", "raise"
    runNo,            \* number of runs started
    step,             \* record of the last loop iteration of run (what it saw and did)
    stepLog,          \* collaborator calls made by the last loop iteration / run step
    hist,             \* run-level history (cause of an exception, branch failures, ...)
    last              \* record of the last direct call of a git helper / project_manager helper

envVars  == <<listing, remoteImages, today, issues>>
gitVars  == <<gitLocal, gitRemote, gitHead>>
fileVars == <<fileExists, fileState>>
runVars  == <<pc, state, projects, idx, current_projects, result, runNo, step, stepLog, hist>>
vars     == <<listing, remoteImages, today, issues, gitLocal, gitRemote, gitHead,
              fileExists, fileState, pc, state, projects, idx, current_projects,
              result, runNo, step, stepLog, hist, last>>

(***************************************************************************)
(* Bounds                                                                  *)
(***************************************************************************)
MaxDay == 2
MaxRuns == 2
MaxIssues == 2
MaxImages == 2
MaxRemoteChanges == 1
MaxFails == 2

ProjectNames == {"pa", "pb"}
Days == 1..MaxDay

(***************************************************************************)
(* Python strings, character by character                                  *)
(***************************************************************************)
Range(s) == {s[k] : k \in 1..Len(s)}

\* a str: the value and the characters it is made of
Str(text, chars) == [text |-> text, chars |-> chars]

\* the strings the helpers below are called on or return
Strings ==
    {Str("ab", <<"a", "b">>),
     Str("a-B_9", <<"a", "-", "B", "_", "9">>),
     Str("", <<>>),
     Str("a b", <<"a", " ", "b">>),
     Str("a.b", <<"a", ".", "b">>),
     Str("a@b", <<"a", "@", "b">>),
     Str("a/b", <<"a", "/", "b">>),
     Str("ab\n", <<"a", "b", "\n">>),
     Str("ab-x", <<"a", "b", "-", "x">>),
     Str("a*", <<"a", "*">>),
     Str("project-ab", <<"p", "r", "o", "j", "e", "c", "t", "-", "a", "b">>),
     Str("project-a b", <<"p", "r", "o", "j", "e", "c", "t", "-", "a", " ", "b">>),
     Str("project-", <<"p", "r", "o", "j", "e", "c", "t", "-">>),
     Str("2025-08-02-ab", <<"2", "0", "2", "5", "-", "0", "8", "-", "0", "2", "-", "a", "b">>),
     Str("2025-08-02-a.b", <<"2", "0", "2", "5", "-", "0", "8", "-", "0", "2", "-", "a", ".", "b">>),
     Str("my Project!", <<"m", "y", " ", "P", "r", "o", "j", "e", "c", "t", "!">>),
     Str("Construction_1", <<"C", "o", "n", "s", "t", "r", "u", "c", "t", "i", "o", "n", "_", "1">>),
     Str("photos", <<"p", "h", "o", "t", "o", "s">>),
     Str("project", <<"p", "r", "o", "j", "e", "c", "t">>),
     Str("construction", <<"c", "o", "n", "s", "t", "r", "u", "c", "t", "i", "o", "n">>)}

CharsOf(text) == (CHOOSE s \in Strings : s.text = text).chars
TextOf(chars) == (CHOOSE s \in Strings : s.chars = chars).text

\* the value None where a str is expected
None == "<None>"

LowerCase ==
    <<"a", "b", "c", "d", "e", "f", "g", "h", "i", "j", "k", "l", "m",
      "n", "o", "p", "q", "r", "s", "t", "u", "v", "w", "x", "y", "z">>
UpperCase ==
    <<"A", "B", "C", "D", "E", "F", "G", "H", "I", "J", "K", "L", "M",
      "N", "O", "P", "Q", "R", "S", "T", "U", "V", "W", "X", "Y", "Z">>
Digits == {"0", "1", "2", "3", "4", "5", "6", "7", "8", "9"}

\* str.lower()
str_lower(chars) ==
    [k \in 1..Len(chars) |->
        IF \E u \in 1..Len(UpperCase) : UpperCase[u] = chars[k]
        THEN LowerCase[CHOOSE u \in 1..Len(UpperCase) : UpperCase[u] = chars[k]]
        ELSE chars[k]]

\* "w in s"
Contains(chars, w) ==
    \E i \in 1..(Len(chars) + 1 - Len(w)) : SubSeq(chars, i, i + Len(w) - 1) = w

AllIn(chars, class) == \A k \in 1..Len(chars) : chars[k] \in class

\* the character class [a-zA-Z0-9-_]
SlugClass == Range(LowerCase) \cup Range(UpperCase) \cup Digits \cup {"-", "_"}

\* where "$" matches: at the end of the string, and just before a newline
\* that ends the string; the set of the parts of the string left of it
BeforeDollar(chars) ==
    IF chars # <<>> /\ chars[Len(chars)] = "\n"
    THEN {chars, SubSeq(chars, 1, Len(chars) - 1)}
    ELSE {chars}

\* re.match(r"^[a-zA-Z0-9-_]+$", s)
re_match_slug(chars) ==
    \E m \in BeforeDollar(chars) : Len(m) > 0 /\ AllIn(m, SlugClass)

\* re.match(r"^\d{4}-\d{2}-\d{2}-(.+)$", s): the set holding group(1) of the
\* match, empty when there is no match
re_match_date(chars) ==
    {SubSeq(m, 12, Len(m)) :
        m \in {m \in BeforeDollar(chars) :
                  /\ Len(m) > 11
                  /\ \A k \in {1, 2, 3, 4, 6, 7, 9, 10} : m[k] \in Digits
                  /\ \A k \in {5, 8, 11} : m[k] = "-"
                  /\ \A k \in 12..Len(m) : m[k] # "\n"}}

(***************************************************************************)
(* Branch names and git commands                                           *)
(***************************************************************************)
\* f"project/{date_prefix}-{project_name}"
get_branch_name(project_name, date_prefix) ==
    [date |-> date_prefix, name |-> project_name]

Main == [date |-> 0, name |-> "main"]
NoBranch == [date |-> 0, name |-> ""]
Branches == {get_branch_name(p, d) : p \in ProjectNames, d \in Days}

\* the git command lines the helpers issue (argv without the branch argument)
BRANCH_LIST     == "branch --list"
CHECKOUT        == "checkout"
LS_REMOTE       == "ls-remote --heads origin"
FETCH           == "fetch origin"
CHECKOUT_TRACK  == "checkout -b <b> origin/<b>"
CHECKOUT_MAIN   == "checkout main"
FETCH_MAIN      == "fetch origin main"
CHECKOUT_B_MAIN == "checkout -b main origin/main"
PULL_MAIN       == "pull origin main"
CHECKOUT_B      == "checkout -b"
CONFIG_NAME     == "config user.name"
CONFIG_EMAIL    == "config user.email"
ADD             == "add"
COMMIT          == "commit -m"

BranchCmds == {BRANCH_LIST, CHECKOUT, LS_REMOTE, FETCH, CHECKOUT_TRACK, CHECKOUT_MAIN,
               FETCH_MAIN, CHECKOUT_B_MAIN, PULL_MAIN, CHECKOUT_B}
CommitCmds == {CONFIG_NAME, CONFIG_EMAIL, ADD, COMMIT}
ListingCmds == {BRANCH_LIST, LS_REMOTE}

Cmd(kind, b) == [cmd |-> kind, branch |-> b]

\* A git context threads the working copy through a sequence of commands:
\* ok = FALSE once a command run with check=True has failed (CalledProcessError).
GitCtx(local, head) == [local |-> local, head |-> head, cmds |-> <<>>, ok |-> TRUE]

\* effect of one successful git command on the working copy
GitEffect(g, kind, b) ==
    [g EXCEPT !.local = IF kind \in {CHECKOUT_TRACK, CHECKOUT_B} THEN @ \cup {b}
                        ELSE IF kind = CHECKOUT_B_MAIN THEN @ \cup {Main}
                        ELSE @,
              !.head  = IF kind \in {CHECKOUT, CHECKOUT_TRACK, CHECKOUT_B} THEN b
                        ELSE IF kind \in {CHECKOUT_MAIN, CHECKOUT_B_MAIN} THEN Main
                        ELSE @]

\* subprocess.run([...], check=True): issue the command; a failing command
\* (kind \in fails) raises CalledProcessError, a successful one takes effect.
\* A context that has already raised skips the command.
Run(g, kind, b, fails) ==
    IF ~g.ok THEN g
    ELSE LET g1 == [g EXCEPT !.cmds = Append(@, Cmd(kind, b))]
         IN  IF kind \in fails THEN [g1 EXCEPT !.ok = FALSE]
             ELSE GitEffect(g1, kind, b)

\* subprocess.run([...], check=False, capture_output=True): the command is
\* issued and never raises; stdout is empty when it fails.
RunQuery(g, kind, b) == [g EXCEPT !.cmds = Append(@, Cmd(kind, b))]

\* stdout of "git branch --list <b>": the local branches matching <b>
BranchListStdout(b, local, fails) ==
    IF BRANCH_LIST \in fails THEN {} ELSE {x \in local : x = b}

\* stdout of "git ls-remote --heads origin <b>": the remote heads matching <b>
LsRemoteStdout(b, remote, fails) ==
    IF LS_REMOTE \in fails THEN {} ELSE {x \in remote : x = b}

(***************************************************************************)
(* GitManager (construction_workflow.py)                                   *)
(***************************************************************************)
\* variant: a failing pull is ignored and the project branch is created anyway
GitManager_create_from_main_ignores_pull(g, branch_name, fails) ==
    LET m1 == Run(g, CHECKOUT_MAIN, Main, fails)
        m2 == IF m1.ok THEN m1
              ELSE Run(Run([m1 EXCEPT !.ok = TRUE], FETCH_MAIN, Main, fails),
                       CHECKOUT_B_MAIN, Main, fails)
        m3 == [Run(m2, PULL_MAIN, Main, fails) EXCEPT !.ok = m2.ok]
    IN  Run(m3, CHECKOUT_B, branch_name, fails)

\* "Create new branch from main": checkout main, or fetch it and create it
\* when the checkout fails; then pull and create the project branch.
GitManager_create_from_main(g, branch_name, fails) ==
    LET m1 == Run(g, CHECKOUT_MAIN, Main, fails)
        m2 == IF m1.ok THEN m1
              ELSE Run(Run([m1 EXCEPT !.ok = TRUE], FETCH_MAIN, Main, fails),
                       CHECKOUT_B_MAIN, Main, fails)
    IN  Run(Run(m2, PULL_MAIN, Main, fails), CHECKOUT_B, branch_name, fails)

\* GitManager.create_or_switch_branch: the context after the try block;
\* the method returns ctx.ok (False from the except clause).
GitManager_create_or_switch_branch(branch_name, fails, local, remote, head) ==
    LET g0 == RunQuery(GitCtx(local, head), BRANCH_LIST, branch_name)
    IN  IF branch_name \in BranchListStdout(branch_name, local, fails)
        THEN Run(g0, CHECKOUT, branch_name, fails)
        ELSE LET g1 == RunQuery(g0, LS_REMOTE, branch_name)
             IN  IF LsRemoteStdout(branch_name, remote, fails) # {}
                 THEN Run(Run(g1, FETCH, branch_name, fails), CHECKOUT_TRACK, branch_name, fails)
                 ELSE GitManager_create_from_main(g1, branch_name, fails)

\* GitManager.commit_changes: "True" after config, add and commit succeeded,
\* "raise" (the re-raised CalledProcessError) otherwise.
GitManager_commit_changes(project_dir, fails) ==
    LET g == Run(Run(Run(Run(GitCtx({}, NoBranch), CONFIG_NAME, project_dir, fails),
                         CONFIG_EMAIL, project_dir, fails),
                     ADD, project_dir, fails),
                 COMMIT, project_dir, fails)
    IN  [result |-> IF g.ok THEN "True" ELSE "raise", cmds |-> g.cmds]

(***************************************************************************)
(* GitOperations (utils/git_operations.py)                                 *)
(***************************************************************************)
\* GitOperations.ensure_git_config: failures are logged and swallowed
ensure_git_config(g, project_dir, fails) ==
    [Run(Run(g, CONFIG_NAME, project_dir, fails), CONFIG_EMAIL, project_dir, fails)
        EXCEPT !.ok = TRUE]

branch_exists_locally(branch_name, local, fails) ==
    branch_name \in BranchListStdout(branch_name, local, fails)

branch_exists_remotely(branch_name, remote, fails) ==
    LsRemoteStdout(branch_name, remote, fails) # {}

checkout_branch(g, branch_name, fails) ==
    Run(g, CHECKOUT, branch_name, fails)

fetch_and_checkout_remote_branch(g, branch_name, fails) ==
    Run(Run(g, FETCH, branch_name, fails), CHECKOUT_TRACK, branch_name, fails)

\* variant: main is not updated after it was checked out
ensure_main_branch_without_pull(g, fails) ==
    LET m1 == Run(g, CHECKOUT_MAIN, Main, fails)
    IN  IF m1.ok THEN m1
        ELSE Run(Run([m1 EXCEPT !.ok = TRUE], FETCH_MAIN, Main, fails),
                 CHECKOUT_B_MAIN, Main, fails)

ensure_main_branch(g, fails) ==
    LET m1 == Run(g, CHECKOUT_MAIN, Main, fails)
        m2 == IF m1.ok THEN m1
              ELSE Run(Run([m1 EXCEPT !.ok = TRUE], FETCH_MAIN, Main, fails),
                       CHECKOUT_B_MAIN, Main, fails)
    IN  Run(m2, PULL_MAIN, Main, fails)

create_branch_from_main(g, branch_name, fails) ==
    Run(ensure_main_branch(g, fails), CHECKOUT_B, branch_name, fails)

\* variant: origin is consulted before the local branches
GitOperations_create_or_switch_branch_remote_first(branch_name, fails, local, remote, head) ==
    LET g0 == RunQuery(GitCtx(local, head), LS_REMOTE, branch_name)
    IN  IF branch_exists_remotely(branch_name, remote, fails)
        THEN fetch_and_checkout_remote_branch(g0, branch_name, fails)
        ELSE LET g1 == RunQuery(g0, BRANCH_LIST, branch_name)
             IN  IF branch_exists_locally(branch_name, local, fails)
                 THEN checkout_branch(g1, branch_name, fails)
                 ELSE create_branch_from_main(g1, branch_name, fails)

GitOperations_create_or_switch_branch(branch_name, fails, local, remote, head) ==
    LET g0 == RunQuery(GitCtx(local, head), BRANCH_LIST, branch_name)
    IN  IF branch_exists_locally(branch_name, local, fails)
        THEN checkout_branch(g0, branch_name, fails)
        ELSE LET g1 == RunQuery(g0, LS_REMOTE, branch_name)
             IN  IF branch_exists_remotely(branch_name, remote, fails)
                 THEN fetch_and_checkout_remote_branch(g1, branch_name, fails)
                 ELSE create_branch_from_main(g1, branch_name, fails)

\* variant: the failure is reported by a False return (as add_and_commit_files does)
GitOperations_commit_changes_returns_false(project_dir, ensure_config, fails) ==
    LET g0 == IF ensure_config THEN ensure_git_config(GitCtx({}, NoBranch), project_dir, fails)
              ELSE GitCtx({}, NoBranch)
        g  == Run(Run(g0, ADD, project_dir, fails), COMMIT, project_dir, fails)
    IN  [result |-> IF g.ok THEN "True" ELSE "False", cmds |-> g.cmds]

GitOperations_commit_changes(project_dir, ensure_config, fails) ==
    LET g0 == IF ensure_config THEN ensure_git_config(GitCtx({}, NoBranch), project_dir, fails)
              ELSE GitCtx({}, NoBranch)
        g  == Run(Run(g0, ADD, project_dir, fails), COMMIT, project_dir, fails)
    IN  [result |-> IF g.ok THEN "True" ELSE "raise", cmds |-> g.cmds]

(***************************************************************************)
(* project_manager.py: the photo sync helpers that commit                  *)
(***************************************************************************)
\* _try_cloud_photo_sync(project_name, project_dir)
\*   album_info : project.json names a cloud album
\*   downloaded : number of files download_album_photos returned, -1 = it raised
\*   new_photos : number of downloaded files not yet in metadata["photos"]
try_cloud_photo_sync(project_dir, album_info, downloaded, new_photos, fails) ==
    IF ~album_info THEN [result |-> "False", cmds |-> <<>>, commit_failed |-> FALSE]
    ELSE IF downloaded = -1 THEN [result |-> "False", cmds |-> <<>>, commit_failed |-> FALSE]
    ELSE IF downloaded = 0 THEN [result |-> "False", cmds |-> <<>>, commit_failed |-> FALSE]
    ELSE IF new_photos > 0
         THEN LET c == GitOperations_commit_changes(project_dir, FALSE, fails)
              IN  \* "except Exception" around the whole block catches the re-raised error
                  [result |-> IF c.result = "raise" THEN "False" ELSE "True",
                   cmds |-> c.cmds, commit_failed |-> c.result = "raise"]
         ELSE [result |-> "True", cmds |-> <<>>, commit_failed |-> FALSE]

\* _commit_copied_photos(project_dir, project_name, copied_count)
commit_copied_photos(project_dir, copied_count, fails) ==
    IF copied_count > 0
    THEN LET c == GitOperations_commit_changes(project_dir, FALSE, fails)
         IN  [result |-> IF c.result = "raise" THEN "raise" ELSE "None",
              cmds |-> c.cmds, commit_failed |-> c.result = "raise"]
    ELSE [result |-> "None", cmds |-> <<>>, commit_failed |-> FALSE]
(***************************************************************************)
(* Images, fingerprints and change detection                               *)
(***************************************************************************)

\* the images the photo source can hold: id, url ("" = no url) and
\* metadata.datetime, as strings (sequences of characters)
ImagePool == <<
    [id |-> <<"a">>, url |-> <<"u">>, datetime |-> <<>>],
    [id |-> <<"c">>, url |-> <<>>,    datetime |-> <<>>],
    [id |-> <<"b">>, url |-> <<"v">>, datetime |-> <<"1">>] >>
ImageIds == 1..Len(ImagePool)

\* hashlib.md5(...).hexdigest(), taken as injective on its argument
md5(str) == str

\* variant: the url is left out of the fingerprint
generate_image_hash_without_url(image) == md5(image.id \o image.datetime)

\* CloudinaryHasher.generate_image_hash (ImgurHasher is the same):
\* md5 of f"{image_id}{url}{datetime_val}"
generate_image_hash(image) == md5(image.id \o image.url \o image.datetime)

Hash(i) == generate_image_hash(ImagePool[i])

EmptyMap == [x \in {} |-> 0]

\* variant: the new images are returned newest first
FindNewImages_newest_first(current_images, existing_images) ==
    LET existing_hashes == DOMAIN existing_images
        new == SelectSeq(current_images, LAMBDA i : Hash(i) \notin existing_hashes)
    IN  [k \in 1..Len(new) |-> new[Len(new) + 1 - k]]

\* variant: every current image counts as new
FindNewImages_all(current_images, existing_images) == current_images

\* new_images = [img for img in current_images if img["hash"] not in existing_hashes]
FindNewImages(current_images, existing_images) ==
    LET existing_hashes == DOMAIN existing_images
    IN  SelectSeq(current_images, LAMBDA i : Hash(i) \notin existing_hashes)

\* events of the call log: a collaborator call, or one git command
Ev(op, b, img) == [op |-> op, cmd |-> "", branch |-> b, img |-> img]
GitEv(c) == [op |-> "git", cmd |-> c.cmd, branch |-> c.branch, img |-> 0]
GitEvs(cmds) == [k \in 1..Len(cmds) |-> GitEv(cmds[k])]

\* the download loop: download_image is called for every new image with a
\* url; dl_ok is the set of images whose download returns a path
DownloadCalls(new_images) ==
    SelectSeq(new_images, LAMBDA i : ImagePool[i].url # <<>>)

DownloadedFiles(new_images, dl_ok) ==
    SelectSeq(DownloadCalls(new_images), LAMBDA i : i \in dl_ok)

DownloadEvs(new_images, b) ==
    LET calls == DownloadCalls(new_images)
    IN  [k \in 1..Len(calls) |-> Ev("download_image", b, calls[k])]

(***************************************************************************)
(* ConstructionWorkflow.sync_project_photos                                *)
(*   env.images_raise : get_project_images raises                          *)
(*   env.gfails, env.cfails : the git commands that fail                   *)
(*   env.dl_ok : the images whose download succeeds                        *)
(* Returns what the method returns (new_images, total), whether it raised, *)
(* its calls, and the working copy it leaves.                              *)
(***************************************************************************)
SyncResult(raised, new_images, total, log, local, head, diff, branch, downloaded, commit) ==
    [raised |-> raised, new_images |-> new_images, total |-> total, log |-> log,
     local |-> local, head |-> head,
     diff |-> diff, branch |-> branch, downloaded |-> downloaded, commit |-> commit]

\* variant: no early return when nothing is new
NothingNew_never(new_images) == FALSE

\* "if not new_images": nothing to sync, return early
NothingNew(new_images) == new_images = <<>>

\* variant: the result of the branch resolution is ignored
ResolutionFailed_never(ok) == FALSE

\* "if not self.git.create_or_switch_branch(branch_name)": give up on the project
ResolutionFailed(ok) == ~ok

sync_project_photos(project_name, existing_images, current, date, env, local, remote, head) ==
    LET ev0 == <<Ev("get_project_images", NoBranch, 0)>>
    IN
    IF env.images_raise
    THEN SyncResult("get_project_images", <<>>, 0, ev0, local, head, <<>>, "none", <<>>, "none")
    ELSE
    LET current_images == current
        new_images == FindNewImages(current_images, existing_images)
        total == Len(current_images)
    IN
    IF NothingNew(new_images)
    THEN SyncResult("none", <<>>, total, ev0, local, head, new_images, "none", <<>>, "none")
    ELSE
    LET branch_name == get_branch_name(project_name, date)
        g == GitManager_create_or_switch_branch(branch_name, env.gfails, local, remote, head)
        ev1 == ev0 \o <<Ev("create_or_switch_branch", branch_name, 0)>> \o GitEvs(g.cmds)
    IN
    IF ResolutionFailed(g.ok)
    THEN SyncResult("none", <<>>, total, ev1, g.local, g.head, new_images, "False", <<>>, "none")
    ELSE
    LET resolved == IF g.ok THEN "True" ELSE "False"
        downloaded_files == DownloadedFiles(new_images, env.dl_ok)
        ev2 == ev1 \o DownloadEvs(new_images, branch_name)
    IN
    IF downloaded_files = <<>>
    THEN SyncResult("none", new_images, total, ev2, g.local, g.head, new_images, resolved, <<>>,
                    "none")
    ELSE
    LET c == GitManager_commit_changes(branch_name, env.cfails)
        ev3 == ev2 \o <<Ev("commit_changes", branch_name, 0)>> \o GitEvs(c.cmds)
    IN
    IF c.result = "raise"
    THEN SyncResult("commit_changes", <<>>, total, ev3, g.local, g.head, new_images, resolved,
                    downloaded_files, "raise")
    ELSE SyncResult("none", new_images, total, ev3, g.local, g.head, new_images, resolved,
                    downloaded_files, "True")

(***************************************************************************)
(* ProjectStateManager and the state dict                                  *)
(***************************************************************************)
DefaultState == [projects |-> EmptyMap, last_scan |-> 0]

\* JSON values, as json.dump writes them and json.load reads them
JNull      == [t |-> "null"]
JString(s) == [t |-> "string", v |-> s]
JNumber(n) == [t |-> "number", v |-> n]
JObject(m) == [t |-> "object", v |-> m]

\* json.dump of an optional value: None is written as null
OptionalNumberToJson(x) == IF x = 0 THEN JNull ELSE JNumber(x)
OptionalStringToJson(x) == IF x = 0 THEN JNull ELSE JString(x)

\* variant: a null is read back as a number
ScalarFromJson_null_as_number(j) == IF j.t = "null" THEN -1 ELSE j.v

\* json.load of a scalar: null is read as None
ScalarFromJson(j) == IF j.t = "null" THEN 0 ELSE j.v

ImageToJson(r) ==
    JObject([image_id |-> JString(r.image_id), added_at |-> JString(r.added_at)])

ImageFromJson(j) ==
    [image_id |-> ScalarFromJson(j.v.image_id), added_at |-> ScalarFromJson(j.v.added_at)]

ProjectToJson(r) ==
    JObject([project_id   |-> JString(r.project_id),
             issue_number |-> OptionalNumberToJson(r.issue_number),
             branch_name  |-> JString(r.branch_name),
             created_at   |-> JString(r.created_at),
             images       |-> JObject([h \in DOMAIN r.images |-> ImageToJson(r.images[h])])])

ProjectFromJson(j) ==
    [project_id   |-> ScalarFromJson(j.v.project_id),
     issue_number |-> ScalarFromJson(j.v.issue_number),
     branch_name  |-> ScalarFromJson(j.v.branch_name),
     created_at   |-> ScalarFromJson(j.v.created_at),
     images       |-> [h \in DOMAIN j.v.images.v |-> ImageFromJson(j.v.images.v[h])]]

\* json.dump(state, f, indent=2)
json_dump(st) ==
    JObject([projects  |-> JObject([p \in DOMAIN st.projects |->
                                       ProjectToJson(st.projects[p])]),
             last_scan |-> OptionalStringToJson(st.last_scan)])

\* json.load(f)
json_load(j) ==
    [projects  |-> [p \in DOMAIN j.v.projects.v |-> ProjectFromJson(j.v.projects.v[p])],
     last_scan |-> ScalarFromJson(j.v.last_scan)]

\* ProjectStateManager.load_state
load_state == IF fileExists THEN json_load(fileState) ELSE DefaultState

\* variant: created_at is left unset
NewProject_without_created_at(project_id, issue_number, date) ==
    [project_id |-> project_id,
     issue_number |-> issue_number,
     branch_name |-> get_branch_name(project_id, date),
     created_at |-> 0,
     images |-> EmptyMap]

\* the record run creates for a project it has not seen
NewProject(project_id, issue_number, date) ==
    [project_id |-> project_id,
     issue_number |-> issue_number,
     branch_name |-> get_branch_name(project_id, date),
     created_at |-> date,
     images |-> EmptyMap]

\* variant: the images map is rebuilt from the new images only
UpdateImages_replaces(images, new_images, now) ==
    [h \in {Hash(new_images[k]) : k \in 1..Len(new_images)} |->
        [image_id |-> ImagePool[CHOOSE i \in Range(new_images) : Hash(i) = h].id,
         added_at |-> now]]

\* "for image in new_images: state[...]["images"][image["hash"]] = {...}":
\* a later image with the same hash overwrites an earlier one
UpdateImages(images, new_images, now) ==
    LET new_hashes == {Hash(new_images[k]) : k \in 1..Len(new_images)}
        LastOf(h) == CHOOSE k \in 1..Len(new_images) :
                        /\ Hash(new_images[k]) = h
                        /\ \A j \in (k+1)..Len(new_images) : Hash(new_images[j]) # h
    IN  [h \in (DOMAIN images) \cup new_hashes |->
            IF h \in new_hashes
            THEN [image_id |-> ImagePool[new_images[LastOf(h)]].id, added_at |-> now]
            ELSE images[h]]

\* state["projects"][name] = record
PutProject(projs, name, rec) ==
    [n \in (DOMAIN projs) \cup {name} |-> IF n = name THEN rec ELSE projs[n]]

ImagesOf(projs, name) == IF name \in DOMAIN projs THEN projs[name].images ELSE EmptyMap

IssueOutcomes   == {"ok", "perm", "err"}
CommentOutcomes == {"ok", "perm", "err"}
\* the git failures a run is exposed to: none; the local listing fails; the
\* first check=True command of whichever path is taken fails; "checkout main"
\* fails (the fallback fetches main); the commit fails at "add" or "commit"
WorkflowGitFails    == {{}, {BRANCH_LIST}, {CHECKOUT, FETCH, PULL_MAIN}, {CHECKOUT_MAIN}}
WorkflowCommitFails == {{}, {ADD}, {COMMIT}}

NoStep == [auth |-> "none", proj |-> "", is_new |-> FALSE, issue |-> "none", pre_exists |-> FALSE,
           pre_images |-> EmptyMap, diff |-> <<>>, branch |-> "none", downloaded |-> <<>>,
           commit |-> "none", new_images |-> <<>>, total |-> 0, comment |-> "none",
           comment_args |-> <<>>, github |-> FALSE, new_photos |-> 0,
           raised |-> "none"]

NoHist == [exc |-> "none", branch_failed |-> FALSE, prev_true |-> FALSE,
           prev_clean |-> FALSE, second_orig |-> FALSE, second |-> FALSE, saves |-> 0,
           changes |-> 0, first |-> [p \in ProjectNames |-> 0], listing |-> "none"]

\* the history at the start of a run, and after a run that did not save
ResetHist == [NoHist EXCEPT !.changes = hist.changes, !.first = hist.first]

NoLast == [op |-> "none", impl |-> "", branch |-> NoBranch, result |-> "none",
           cmds |-> <<>>, failed |-> {}, exists_locally |-> FALSE, commit_failed |-> FALSE,
           args |-> <<>>, out |-> <<>>]

(***************************************************************************)
(* Initial state                                                           *)
(***************************************************************************)
Init ==
    /\ listing \in {<<"pa">>, <<"pa", "pb">>}
    /\ remoteImages = [p \in ProjectNames |-> IF p = "pa" THEN <<1>> ELSE <<>>]
    /\ today = 1
    /\ issues = <<>>
    /\ gitLocal = {Main}
    /\ gitRemote = {get_branch_name("pa", 1)}
    /\ gitHead = Main
    /\ fileExists = FALSE
    /\ fileState = JNull
    /\ pc = "idle"
    /\ state = DefaultState
    /\ projects = <<>>
    /\ idx = 1
    /\ current_projects = EmptyMap
    /\ result = "none"
    /\ runNo = 0
    /\ step = NoStep
    /\ stepLog = <<>>
    /\ hist = NoHist
    /\ last = NoLast
(***************************************************************************)
(* The photo source and the calendar change between runs                   *)
(***************************************************************************)
\* the listings of the photo source: sequences of distinct project names
Listings ==
    {l \in UNION {[1..n -> ProjectNames] : n \in 0..Cardinality(ProjectNames)} :
        \A j, k \in 1..Len(l) : j # k => l[j] # l[k]}

RemoteChanged == [hist EXCEPT !.prev_true = FALSE, !.prev_clean = FALSE,
                              !.changes = @ + 1]

RemoteSetListing ==
    /\ pc = "idle"
    /\ hist.changes < MaxRemoteChanges
    /\ \E l \in Listings \ {listing} : listing' = l
    /\ hist' = RemoteChanged
    /\ UNCHANGED <<remoteImages, today, issues, gitVars, fileVars, pc, state, projects, idx,
                   current_projects, result, runNo, step, stepLog, last>>

RemoteAddImage ==
    /\ pc = "idle"
    /\ hist.changes < MaxRemoteChanges
    /\ \E p \in ProjectNames, i \in ImageIds :
          /\ Len(remoteImages[p]) < MaxImages
          /\ \A k \in 1..Len(remoteImages[p]) : remoteImages[p][k] < i
          /\ remoteImages' = [remoteImages EXCEPT ![p] = Append(@, i)]
    /\ hist' = RemoteChanged
    /\ UNCHANGED <<listing, today, issues, gitVars, fileVars, pc, state, projects, idx,
                   current_projects, result, runNo, step, stepLog, last>>

RemoteRemoveImage ==
    /\ pc = "idle"
    /\ hist.changes < MaxRemoteChanges
    /\ \E p \in ProjectNames :
          /\ remoteImages[p] # <<>>
          /\ remoteImages' = [remoteImages EXCEPT ![p] = Tail(@)]
    /\ hist' = RemoteChanged
    /\ UNCHANGED <<listing, today, issues, gitVars, fileVars, pc, state, projects, idx,
                   current_projects, result, runNo, step, stepLog, last>>

AdvanceDay ==
    /\ pc = "idle"
    /\ today < MaxDay
    /\ today' = today + 1
    /\ UNCHANGED <<listing, remoteImages, issues, gitVars, fileVars, pc, state, projects, idx,
                   current_projects, result, runNo, step, stepLog, hist, last>>

(***************************************************************************)
(* ConstructionWorkflow.run                                                *)
(***************************************************************************)
\* variant: the result of authenticate is ignored
AuthFailed_never(auth) == FALSE

\* "if not self.photo_client.authenticate(): return False"
AuthFailed(auth) == ~auth

ListingFailed_never(list_ok) == FALSE

\* "try: construction_projects = self.photo_client.get_construction_projects()
\*  except Exception as e: ... return False"
ListingFailed(list_ok) == ~list_ok

\* authenticate, load_state, get_construction_projects
StartRun ==
    /\ pc = "idle"
    /\ runNo < MaxRuns
    /\ runNo' = runNo + 1
    /\ \E auth \in BOOLEAN, list_ok \in BOOLEAN :
          /\ step' = [NoStep EXCEPT !.auth = IF auth THEN "True" ELSE "False"]
          /\ IF AuthFailed(auth)
             THEN /\ result' = "False"
                  /\ stepLog' = <<Ev("authenticate", NoBranch, 0)>>
                  /\ hist' = ResetHist
                  /\ UNCHANGED <<pc, state, projects, idx, current_projects>>
             ELSE IF ListingFailed(list_ok)
             THEN /\ result' = "False"
                  /\ stepLog' = <<Ev("authenticate", NoBranch, 0), Ev("load_state", NoBranch, 0),
                                  Ev("get_construction_projects", NoBranch, 0)>>
                  /\ hist' = [ResetHist EXCEPT !.listing = "raise"]
                  /\ UNCHANGED <<pc, state, projects, idx, current_projects>>
             ELSE /\ result' = "none"
                  /\ pc' = "loop"
                  /\ state' = load_state
                  /\ projects' = listing
                  /\ idx' = 1
                  /\ current_projects' = EmptyMap
                  /\ stepLog' = <<Ev("authenticate", NoBranch, 0), Ev("load_state", NoBranch, 0),
                                  Ev("get_construction_projects", NoBranch, 0)>>
                  /\ hist' = [ResetHist EXCEPT !.second_orig = hist.prev_true,
                                            !.second = hist.prev_clean,
                                            !.listing = IF list_ok THEN "True" ELSE "raise"]
    /\ UNCHANGED <<envVars, gitVars, fileVars, last>>

\* the date at which a record was first created for each project (0: never)
FirstCreated(rec, projs) ==
    IF rec.is_new /\ rec.proj \in DOMAIN projs /\ hist.first[rec.proj] = 0
    THEN [hist.first EXCEPT ![rec.proj] = today]
    ELSE hist.first

\* how one iteration of the for loop ends: normally (raised = "none"), or by
\* an exception that leaves run (nothing in run catches it)
\* variant: an iteration that raises saves what the run has gathered so far
EndIteration_saving_partial(raised, rec, log, issues1, local, head, projs) ==
    /\ issues' = issues1
    /\ gitLocal' = local
    /\ gitHead' = head
    /\ stepLog' = log
    /\ step' = [rec EXCEPT !.raised = raised]
    /\ IF raised # "none"
       THEN /\ pc' = "idle"
            /\ result' = "raise"
            /\ hist' = [ResetHist EXCEPT !.exc = raised, !.first = FirstCreated(rec, projs)]
            /\ state' = DefaultState
            /\ current_projects' = EmptyMap
            /\ idx' = idx
            /\ fileExists' = TRUE
            /\ fileState' = json_dump([projects |-> projs, last_scan |-> today])
       ELSE /\ pc' = "loop"
            /\ result' = result
            /\ hist' = [hist EXCEPT !.branch_failed = @ \/ rec.branch = "False",
                                    !.first = FirstCreated(rec, projs)]
            /\ state' = [state EXCEPT !.projects = projs]
            /\ current_projects' = PutProject(current_projects, rec.proj, projs[rec.proj])
            /\ idx' = idx + 1
            /\ UNCHANGED fileVars
    /\ UNCHANGED <<listing, remoteImages, today, gitRemote, projects, runNo, last>>

\* variant: a project whose branch could not be resolved is taken again
EndIteration_retrying(raised, rec, log, issues1, local, head, projs) ==
    /\ issues' = issues1
    /\ gitLocal' = local
    /\ gitHead' = head
    /\ stepLog' = log
    /\ step' = [rec EXCEPT !.raised = raised]
    /\ IF raised # "none"
       THEN /\ pc' = "idle"
            /\ result' = "raise"
            /\ hist' = [ResetHist EXCEPT !.exc = raised, !.first = FirstCreated(rec, projs)]
            /\ state' = DefaultState
            /\ current_projects' = EmptyMap
            /\ idx' = idx
       ELSE /\ pc' = "loop"
            /\ result' = result
            /\ hist' = [hist EXCEPT !.branch_failed = @ \/ rec.branch = "False",
                                    !.first = FirstCreated(rec, projs)]
            /\ state' = [state EXCEPT !.projects = projs]
            /\ current_projects' = PutProject(current_projects, rec.proj, projs[rec.proj])
            /\ idx' = IF rec.branch = "False" THEN idx ELSE idx + 1
    /\ UNCHANGED <<listing, remoteImages, today, gitRemote, fileVars, projects, runNo, last>>

EndIteration(raised, rec, log, issues1, local, head, projs) ==
    /\ issues' = issues1
    /\ gitLocal' = local
    /\ gitHead' = head
    /\ stepLog' = log
    /\ step' = [rec EXCEPT !.raised = raised]
    /\ IF raised # "none"
       THEN /\ pc' = "idle"
            /\ result' = "raise"
            /\ hist' = [ResetHist EXCEPT !.exc = raised, !.first = FirstCreated(rec, projs)]
            /\ state' = DefaultState
            /\ current_projects' = EmptyMap
            /\ idx' = idx
       ELSE /\ pc' = "loop"
            /\ result' = result
            /\ hist' = [hist EXCEPT !.branch_failed = @ \/ rec.branch = "False",
                                    !.first = FirstCreated(rec, projs)]
            /\ state' = [state EXCEPT !.projects = projs]
            /\ current_projects' = PutProject(current_projects, rec.proj, projs[rec.proj])
            /\ idx' = idx + 1
    /\ UNCHANGED <<listing, remoteImages, today, gitRemote, fileVars, projects, runNo, last>>

\* variant: every listed project is taken for a new one
IsNewProject_always(project_name, projs) == TRUE

\* "if project_name not in state["projects"]"
IsNewProject(project_name, projs) == project_name \notin DOMAIN projs

\* variant: a permission error of create_issue is not caught either
CreateIssueRaises_permission_too(io) == io \in {"perm", "err"}

\* "try: create_issue(...) except PermissionError": a 403 answer is caught
\* (issue_number stays None), any other error answer leaves run
CreateIssueRaises(io) == io = "err"

\* variant: the total is not passed on (as construction_monitor does)
CommentCounts_total_zero(total_count, new_images) == <<0, Len(new_images)>>

\* the photo_count and new_photos_count arguments of add_issue_comment
CommentCounts(total_count, new_images) == <<total_count, Len(new_images)>>

\* variant: the listing is gone over from its end
CurrentProject_reversed(construction_projects, i) ==
    construction_projects[Len(construction_projects) + 1 - i]

\* "for project in construction_projects": the project of the i-th iteration
CurrentProject(construction_projects, i) == construction_projects[i]

\* one iteration of "for project in construction_projects"
ProcessProject ==
    /\ pc = "loop"
    /\ idx <= Len(projects)
    /\ LET project_name == CurrentProject(projects, idx)
           is_new == IsNewProject(project_name, state.projects)
           rec0 == [NoStep EXCEPT !.proj = project_name, !.is_new = is_new,
                                  !.pre_exists = project_name \in DOMAIN load_state.projects,
                                  !.pre_images = ImagesOf(load_state.projects, project_name)]
       IN
       \E io \in (IF is_new
                  THEN {o \in IssueOutcomes : o = "ok" => Len(issues) < MaxIssues}
                  ELSE {"none"}) :
       LET issue_number == IF io = "ok" THEN Len(issues) + 1 ELSE 0
           issues1 == IF io = "ok" THEN Append(issues, project_name) ELSE issues
           ev_issue == IF is_new THEN <<Ev("create_issue", NoBranch, 0)>> ELSE <<>>
           rec1 == [rec0 EXCEPT !.issue = io]
       IN
       IF CreateIssueRaises(io)
       THEN EndIteration("create_issue", rec1, ev_issue, issues1, gitLocal, gitHead, state.projects)
       ELSE
       LET projs1 == IF is_new
                     THEN PutProject(state.projects, project_name,
                                     NewProject(project_name, issue_number, today))
                     ELSE state.projects
           existing_images == projs1[project_name].images
           current == remoteImages[project_name]
           diff == FindNewImages(current, existing_images)
       IN
       \E images_raise \in BOOLEAN,
          gfails \in (IF diff # <<>> THEN WorkflowGitFails ELSE {{}}),
          dl_ok \in (IF diff # <<>> THEN SUBSET Range(DownloadCalls(diff)) ELSE {{}}),
          cfails \in (IF diff # <<>> THEN WorkflowCommitFails ELSE {{}}) :
       LET env == [images_raise |-> images_raise, gfails |-> gfails, dl_ok |-> dl_ok,
                   cfails |-> cfails]
           r == sync_project_photos(project_name, existing_images, current, today, env,
                                    gitLocal, gitRemote, gitHead)
           rec2 == [rec1 EXCEPT !.diff = r.diff, !.branch = r.branch,
                                !.downloaded = r.downloaded, !.commit = r.commit,
                                !.new_images = r.new_images, !.total = r.total]
           ev_sync == ev_issue \o r.log
       IN
       IF r.raised # "none"
       THEN EndIteration(r.raised, rec2, ev_sync, issues1, r.local, r.head, projs1)
       ELSE
       LET projs2 == [projs1 EXCEPT ![project_name].images =
                                       UpdateImages(@, r.new_images, today)]
           want_comment == r.new_images # <<>> /\ projs2[project_name].issue_number # 0
       IN
       \E co \in (IF want_comment THEN CommentOutcomes ELSE {"none"}) :
       LET ev_all == IF want_comment
                     THEN ev_sync \o <<Ev("add_issue_comment", NoBranch, 0)>>
                     ELSE ev_sync
           rec3 == [rec2 EXCEPT !.comment = co,
                                !.comment_args = IF want_comment
                                                 THEN CommentCounts(r.total, r.new_images)
                                                 ELSE <<>>]
       IN
       EndIteration(IF co = "err" THEN "add_issue_comment" ELSE "none",
                    rec3, ev_all, issues1, r.local, r.head, projs2)

\* variant: the loop is left after its first iteration
LoopDone_after_first(i, construction_projects) == i > 1

\* "for project in construction_projects" has gone over every project
LoopDone(i, construction_projects) == i > Len(construction_projects)

\* variant: the loaded projects map is saved, current_projects is not used
FinishRun_keeps_unlisted ==
    /\ pc = "loop"
    /\ LoopDone(idx, projects)
    /\ LET final == [projects |-> state.projects, last_scan |-> today]
       IN  /\ fileExists' = TRUE
           /\ fileState' = json_dump(final)
           /\ state' = final
    /\ pc' = "idle"
    /\ result' = "True"
    /\ step' = NoStep
    /\ stepLog' = <<Ev("save_state", NoBranch, 0)>>
    /\ hist' = [hist EXCEPT !.prev_true = TRUE, !.prev_clean = ~hist.branch_failed,
                            !.saves = 1]
    /\ UNCHANGED <<envVars, gitVars, projects, idx, current_projects, runNo, last>>

\* after the loop: state["projects"] = current_projects, last_scan, save_state
FinishRun ==
    /\ pc = "loop"
    /\ LoopDone(idx, projects)
    /\ LET final == [projects |-> current_projects, last_scan |-> today]
       IN  /\ fileExists' = TRUE
           /\ fileState' = json_dump(final)
           /\ state' = final
    /\ pc' = "idle"
    /\ result' = "True"
    /\ step' = NoStep
    /\ stepLog' = <<Ev("save_state", NoBranch, 0)>>
    /\ hist' = [hist EXCEPT !.prev_true = TRUE, !.prev_clean = ~hist.branch_failed,
                            !.saves = 1]
    /\ UNCHANGED <<envVars, gitVars, projects, idx, current_projects, runNo, last>>

Next ==
    \/ RemoteSetListing
    \/ RemoteAddImage
    \/ RemoteRemoveImage
    \/ AdvanceDay
    \/ StartRun
    \/ ProcessProject
    \/ FinishRun

Spec == Init /\ [][Next]_vars

\* the runs alone, under the assumption that every collaborator call returns
\* or raises: run is synchronous code, so a run that is in its loop takes its
\* next iteration, and a run that has left the loop saves and returns
SpecLive ==
    /\ Init
    /\ [][StartRun \/ ProcessProject \/ FinishRun]_vars
    /\ WF_vars(ProcessProject)
    /\ WF_vars(FinishRun)

(***************************************************************************)
(* The git helpers and the project_manager sync helpers, called directly   *)
(* on a working copy that the developer and origin also change.            *)
(***************************************************************************)
KindsOf(cmds) == {cmds[k].cmd : k \in 1..Len(cmds)}

\* the record of a call: the commands it issued, those of them that failed
\* (nonzero exit status) and what the call returned
CallRecord(op, impl, b, res, cmds, fails, exists_locally, commit_failed) ==
    [op |-> op, impl |-> impl, branch |-> b, result |-> res, cmds |-> cmds,
     failed |-> KindsOf(cmds) \cap fails,
     exists_locally |-> exists_locally, commit_failed |-> commit_failed,
     args |-> <<>>, out |-> <<>>]

\* the failures a call is exposed to: any of the check=False listings, and
\* at most MaxFails of the commands run with check=True
BranchFailSets ==
    {f \in SUBSET BranchCmds : Cardinality(f \ ListingCmds) <= MaxFails}

\* the project whose branch the direct calls work on
HelperProjects == {"pa"}
TodayBranches == {get_branch_name(p, today) : p \in HelperProjects}

Call_GitManager_create_or_switch_branch ==
    /\ \E b \in TodayBranches, fails \in BranchFailSets :
          LET g == GitManager_create_or_switch_branch(b, fails, gitLocal, gitRemote, gitHead)
          IN  /\ gitLocal' = g.local
              /\ gitHead' = g.head
              /\ last' = CallRecord("create_or_switch_branch", "GitManager", b,
                                    IF g.ok THEN "True" ELSE "False", g.cmds, fails,
                                    b \in BranchListStdout(b, gitLocal, fails), FALSE)
    /\ UNCHANGED <<envVars, gitRemote, fileVars, runVars>>

Call_GitOperations_create_or_switch_branch ==
    /\ \E b \in TodayBranches, fails \in BranchFailSets :
          LET g == GitOperations_create_or_switch_branch(b, fails, gitLocal, gitRemote, gitHead)
          IN  /\ gitLocal' = g.local
              /\ gitHead' = g.head
              /\ last' = [CallRecord("create_or_switch_branch", "GitOperations", b,
                                     IF g.ok THEN "True" ELSE "False", g.cmds, fails,
                                     branch_exists_locally(b, gitLocal, fails), FALSE)
                              EXCEPT !.args = <<[local |-> b \in gitLocal,
                                                 remote |-> b \in gitRemote]>>]
    /\ UNCHANGED <<envVars, gitRemote, fileVars, runVars>>

Call_GitManager_commit_changes ==
    /\ \E fails \in SUBSET CommitCmds :
          LET c == GitManager_commit_changes(gitHead, fails)
          IN  last' = CallRecord("commit_changes", "GitManager", gitHead, c.result, c.cmds,
                                 fails, FALSE, c.result = "raise")
    /\ UNCHANGED <<envVars, gitVars, fileVars, runVars>>

Call_GitOperations_commit_changes ==
    /\ \E fails \in SUBSET CommitCmds, ensure_config \in BOOLEAN :
          LET c == GitOperations_commit_changes(gitHead, ensure_config, fails)
          IN  last' = CallRecord("commit_changes", "GitOperations", gitHead, c.result, c.cmds,
                                 fails, FALSE, c.result = "raise")
    /\ UNCHANGED <<envVars, gitVars, fileVars, runVars>>

Call_try_cloud_photo_sync ==
    /\ \E album_info \in BOOLEAN, downloaded \in -1..MaxImages, new_photos \in 0..MaxImages,
          fails \in SUBSET {ADD, COMMIT} :
          /\ new_photos <= downloaded \/ new_photos = 0
          /\ LET r == try_cloud_photo_sync(gitHead, album_info, downloaded, new_photos, fails)
             IN  last' = CallRecord("_try_cloud_photo_sync", "project_manager", gitHead,
                                    r.result, r.cmds, fails, FALSE, r.commit_failed)
    /\ UNCHANGED <<envVars, gitVars, fileVars, runVars>>

Call_commit_copied_photos ==
    /\ \E copied_count \in 0..MaxImages, fails \in SUBSET {ADD, COMMIT} :
          LET r == commit_copied_photos(gitHead, copied_count, fails)
          IN  last' = CallRecord("_commit_copied_photos", "project_manager", gitHead,
                                 r.result, r.cmds, fails, FALSE, r.commit_failed)
    /\ UNCHANGED <<envVars, gitVars, fileVars, runVars>>

Call_sync_project_photos ==
    /\ \E p \in HelperProjects, current \in {<<1>>, <<1, 2>>}, tracked \in BOOLEAN,
          gfails \in WorkflowGitFails, dl_ok \in SUBSET {1}, cfails \in WorkflowCommitFails :
          LET existing == IF tracked THEN UpdateImages(EmptyMap, <<1>>, today) ELSE EmptyMap
              env == [images_raise |-> FALSE, gfails |-> gfails, dl_ok |-> dl_ok,
                      cfails |-> cfails]
              r == sync_project_photos(p, existing, current, today, env,
                                       gitLocal, gitRemote, gitHead)
          IN  /\ gitLocal' = r.local
              /\ gitHead' = r.head
              /\ last' = [NoLast EXCEPT !.op = "sync_project_photos",
                                        !.impl = "ConstructionWorkflow",
                                        !.branch = get_branch_name(p, today),
                                        !.result = IF r.raised # "none" THEN "raise"
                                                   ELSE "returned",
                                        !.commit_failed = r.commit = "raise"]
    /\ UNCHANGED <<envVars, gitRemote, fileVars, runVars>>

\* variant: "git branch --list" without the pattern prints every branch
RECURSIVE git_branch_list_unfiltered(_, _)
git_branch_list_unfiltered(pattern, branches) ==
    IF branches = <<>> THEN <<>>
    ELSE <<" ", " ">> \o CharsOf(Head(branches)) \o <<"\n">>
            \o git_branch_list_unfiltered(pattern, Tail(branches))

\* the stdout of ["git", "branch", "--list", branch_name] in a repository
\* with the given branches: one line, indented by two blanks, for each
\* branch whose name matches the pattern; a pattern without wildcard matches
\* the equal name only, a pattern ending in "*" every name that begins
\* with what precedes the "*"
RECURSIVE git_branch_list(_, _)
git_branch_list(pattern, branches) ==
    IF branches = <<>> THEN <<>>
    ELSE LET name == CharsOf(Head(branches))
             stem == SubSeq(pattern, 1, Len(pattern) - 1)
             matches == IF pattern # <<>> /\ pattern[Len(pattern)] = "*"
                        THEN Len(name) >= Len(stem) /\ SubSeq(name, 1, Len(stem)) = stem
                        ELSE name = pattern
         IN  (IF matches THEN <<" ", " ">> \o name \o <<"\n">> ELSE <<>>)
                \o git_branch_list(pattern, Tail(branches))

\* "branch_name in result.stdout": the test both implementations make
branch_name_in_stdout(branch_name, branches) ==
    Contains(git_branch_list(CharsOf(branch_name), branches), CharsOf(branch_name))

\* the local existence test is made for a branch name in a repository
\* holding up to two branches, listed in any order
Call_branch_exists_locally ==
    /\ \E impl \in {"GitManager", "GitOperations"},
          branch_name \in {"ab", "project-ab", "a*"},
          branches \in {l \in UNION {[1..n -> {"ab", "ab-x", "project-ab"}] :
                                        n \in 0..2} :
                           \A j, k \in 1..Len(l) : j # k => l[j] # l[k]} :
          last' = [NoLast EXCEPT !.op = "branch_exists_locally", !.impl = impl,
                                    !.args = <<branch_name, branches>>,
                                    !.out = <<branch_name_in_stdout(branch_name, branches)>>]
    /\ UNCHANGED <<envVars, gitVars, fileVars, runVars>>

\* the same call is made on both implementations of the helper, in the same
\* repository and with the same outcomes of the git commands (commit_changes
\* with two arguments, ensure_config taking its default True); out holds
\* what GitManager did, then what GitOperations did
Call_both_implementations ==
    /\ \E op \in {"both.create_or_switch_branch", "both.commit_changes"} :
          IF op = "both.create_or_switch_branch"
          THEN \E b \in TodayBranches, fails \in BranchFailSets :
                  LET m == GitManager_create_or_switch_branch(b, fails, gitLocal, gitRemote,
                                                              gitHead)
                      o == GitOperations_create_or_switch_branch(b, fails, gitLocal, gitRemote,
                                                                 gitHead)
                  IN  last' = [NoLast EXCEPT !.op = op, !.impl = "both", !.branch = b,
                                             !.args = <<fails>>,
                                             !.out = <<[result |-> m.ok, cmds |-> m.cmds,
                                                        local |-> m.local, head |-> m.head],
                                                       [result |-> o.ok, cmds |-> o.cmds,
                                                        local |-> o.local, head |-> o.head]>>]
          ELSE \E fails \in SUBSET CommitCmds :
                  last' = [NoLast EXCEPT !.op = op, !.impl = "both", !.branch = gitHead,
                                         !.args = <<fails>>,
                                         !.out = <<GitManager_commit_changes(gitHead, fails),
                                                   GitOperations_commit_changes(
                                                       gitHead, TRUE, fails)>>]
    /\ UNCHANGED <<envVars, gitVars, fileVars, runVars>>

\* a branch is pushed to or deleted from origin
OriginChanges ==
    /\ \E b \in TodayBranches :
          gitRemote' = IF b \in gitRemote THEN gitRemote \ {b} ELSE gitRemote \cup {b}
    /\ UNCHANGED <<envVars, gitLocal, gitHead, fileVars, runVars, last>>

NextGit ==
    \/ Call_GitManager_create_or_switch_branch
    \/ Call_GitOperations_create_or_switch_branch
    \/ Call_GitManager_commit_changes
    \/ Call_GitOperations_commit_changes
    \/ Call_try_cloud_photo_sync
    \/ Call_commit_copied_photos
    \/ Call_sync_project_photos
    \/ Call_branch_exists_locally
    \/ Call_both_implementations
    \/ OriginChanges

SpecGit == Init /\ [][NextGit]_vars

(***************************************************************************)
(* The pure helpers, called directly on arguments drawn from small sets     *)
(***************************************************************************)
\* the record of a call of a pure helper: its arguments and what it returned
FnCall(op, impl, args, out) ==
    [NoLast EXCEPT !.op = op, !.impl = impl, !.args = args, !.out = out]

\* image dictionaries a photo client can return: id, url and
\* metadata.datetime as strings
ImageRecords ==
    {[id |-> i, url |-> u, datetime |-> d] :
        i \in {<<"a">>, <<"a", "b">>},
        u \in {<<>>, <<"c">>, <<"b", "c">>},
        d \in {<<>>, <<"c">>}}

\* generate_image_hash is called on two image records
Call_generate_image_hash ==
    /\ \E a, b \in ImageRecords :
          last' = FnCall("generate_image_hash", "CloudinaryHasher", <<a, b>>,
                         <<generate_image_hash(a), generate_image_hash(b)>>)
    /\ UNCHANGED <<envVars, gitVars, fileVars, runVars>>

\* the answers requests.request can return: a status code, the body as text
\* and the document response.json() decodes from it
Responses ==
    {[status_code |-> c, text |-> t, json |-> j] :
        c \in {200, 201, 202, 204, 302, 400, 401, 403, 404, 422, 500},
        t \in {"Bad Request", "Forbidden"},
        j \in {[number |-> 1], [id |-> 2]}}

\* f"GitHub API error: {response.status_code} - {response.text}"
ApiErrorMsg(response) == <<"GitHub API error: ", response.status_code, " - ", response.text>>

\* variant: a 403 answer raises the generic exception as well
GitHubManager_api_request_generic_only(response) ==
    IF response.status_code \notin {200, 201}
    THEN [raised |-> "Exception", value |-> ApiErrorMsg(response)]
    ELSE [raised |-> "none", value |-> response.json]

\* GitHubManager._api_request, from the answer of requests.request on
GitHubManager_api_request(response) ==
    IF response.status_code \notin {200, 201}
    THEN IF response.status_code = 403
         THEN [raised |-> "PermissionError", value |-> ApiErrorMsg(response)]
         ELSE [raised |-> "Exception", value |-> ApiErrorMsg(response)]
    ELSE [raised |-> "none", value |-> response.json]

\* _api_request is called and requests.request answers
Call_api_request ==
    /\ \E response \in Responses :
          last' = FnCall("_api_request", "GitHubManager", <<response>>,
                         <<GitHubManager_api_request(response)>>)
    /\ UNCHANGED <<envVars, gitVars, fileVars, runVars>>

\* CloudinaryClient._extract_project_from_folder
extract_project_from_folder(folder_name) ==
    LET s == CharsOf(folder_name)
        prefix == CharsOf("project-")
    IN  IF Len(s) >= Len(prefix) /\ SubSeq(s, 1, Len(prefix)) = prefix
        THEN TextOf(SubSeq(s, 9, Len(s)))
        ELSE IF re_match_date(s) # {}
        THEN TextOf(CHOOSE group \in re_match_date(s) : TRUE)
        ELSE IF \/ Contains(str_lower(s), CharsOf("project"))
                \/ Contains(str_lower(s), CharsOf("construction"))
        THEN folder_name
        ELSE None

\* CloudinaryClient.get_construction_projects: the folders with a project
\* name, in the order root_folders lists them; [] when the listing raises
get_construction_projects(folders, listing_raises) ==
    IF listing_raises THEN <<>>
    ELSE SelectSeq([k \in 1..Len(folders) |->
                       [id |-> folders[k],
                        project_name |-> extract_project_from_folder(folders[k])]],
                   LAMBDA project : project.project_name \notin {None, ""})

\* the loop of run as far as the keys of state["projects"] go: every listed
\* project that is not a key becomes one
RECURSIVE RegisterProjects(_, _, _)
RegisterProjects(projs, construction_projects, i) ==
    IF LoopDone(i, construction_projects) THEN projs
    ELSE LET project_name == CurrentProject(construction_projects, i).project_name
         IN  RegisterProjects(IF IsNewProject(project_name, projs)
                              THEN PutProject(projs, project_name,
                                              NewProject(project_name, 0, today))
                              ELSE projs,
                              construction_projects, i + 1)

\* run lists the projects of the photo source and registers them in an
\* empty state
Call_run_registers_projects ==
    /\ \E folders \in UNION {[1..n -> {"project-ab", "project-a b", "project-",
                                          "2025-08-02-ab", "2025-08-02-a.b", "my Project!",
                                          "Construction_1", "photos"}] : n \in 1..2},
          listing_raises \in BOOLEAN :
          LET construction_projects == get_construction_projects(folders, listing_raises)
          IN  last' = FnCall("run", "ConstructionWorkflow", <<folders>>,
                             <<construction_projects,
                               DOMAIN RegisterProjects(EmptyMap, construction_projects, 1)>>)
    /\ UNCHANGED <<envVars, gitVars, fileVars, runVars>>

\* project_manager.create_project_branch: the working copy after
\* GitOperations.create_or_switch_branch(project.git_branch)
create_project_branch(project_name, date, fails, local, remote, head) ==
    GitOperations_create_or_switch_branch(get_branch_name(project_name, date), fails,
                                          local, remote, head)

\* what start_project returned or raised, the steps it took and the working
\* copy it left
StartResult(res, exc, calls, local, head) ==
    [result |-> res, exc |-> exc, calls |-> calls, local |-> local, head |-> head]

\* project_manager.start_project
\*   monitoring : Config.is_photo_monitoring_enabled()
\*   fails, cfails : the git commands that fail while the branch is resolved
\*                   and while the initial commit is made
start_project(project_name, date, monitoring, fails, cfails, local, remote, head) ==
    IF ~re_match_slug(CharsOf(project_name))
    THEN StartResult("False", "none", <<>>, local, head)
    ELSE
    LET g == create_project_branch(project_name, date, fails, local, remote, head)
    IN
    IF ~g.ok
    THEN StartResult("False", "none", <<"create_project_branch">>, g.local, g.head)
    ELSE
    LET steps == <<"create_project_branch", "setup_project_directory">>
                 \o (IF monitoring THEN <<"create_album">> ELSE <<>>)
                 \o <<"commit_changes">>
        c == GitOperations_commit_changes(g.head, TRUE, cfails)
    IN
    IF c.result = "raise"
    THEN StartResult("raise", "CalledProcessError", steps, g.local, g.head)
    ELSE IF ~monitoring
    THEN \* album_title is read by the closing message and was never bound
         StartResult("raise", "UnboundLocalError", steps, g.local, g.head)
    ELSE StartResult("True", "none", steps, g.local, g.head)

Call_start_project ==
    /\ \E project_name \in {"a-B_9", "", "a b", "a.b", "a@b", "a/b", "ab\n"},
          monitoring \in BOOLEAN, fails \in {{}, {CHECKOUT}, {CHECKOUT_B}},
          cfails \in {{}, {COMMIT}} :
          LET r == start_project(project_name, today, monitoring, fails, cfails,
                                 gitLocal, gitRemote, gitHead)
          IN  /\ gitLocal' = r.local
              /\ gitHead' = r.head
              /\ last' = FnCall("start_project", "project_manager", <<project_name>>,
                                <<r.result, r.calls, r.exc>>)
    /\ UNCHANGED <<envVars, gitRemote, fileVars, runVars>>

NextFn ==
    \/ Call_generate_image_hash
    \/ Call_api_request
    \/ Call_run_registers_projects
    \/ Call_start_project

SpecFn == Init /\ [][NextFn]_vars

(***************************************************************************)
(* construction_monitor.scan_and_sync_projects                             *)
(***************************************************************************)
\* GitHubManager.find_existing_issue: the number of the issue that exists
\* for the project, 0 (None) when there is none
find_existing_issue(project_name, open_issues) ==
    IF \E k \in 1..Len(open_issues) : open_issues[k] = project_name
    THEN CHOOSE k \in 1..Len(open_issues) :
            /\ open_issues[k] = project_name
            /\ \A j \in 1..(k - 1) : open_issues[j] # project_name
    ELSE 0

\* how _handle_project_issue can end for a project: without a manager; the
\* issue was found; it was created; a call raised and was logged
HandleIssueOutcomes(github, project_name, open_issues) ==
    IF ~github THEN {"none"}
    ELSE {"err"} \cup (IF find_existing_issue(project_name, open_issues) # 0
                       THEN {"found"}
                       ELSE {o \in {"ok"} : Len(open_issues) < MaxIssues})

\* _handle_project_issue: the issue number it returns (0 when there is no
\* manager or a call raised) and the issues that exist afterwards
handle_project_issue(io, project_name, open_issues) ==
    [issue_number |-> IF io = "found" THEN find_existing_issue(project_name, open_issues)
                      ELSE IF io = "ok" THEN Len(open_issues) + 1
                      ELSE 0,
     issues |-> IF io = "ok" THEN Append(open_issues, project_name) ELSE open_issues,
     log |-> IF io = "none" THEN <<>>
             ELSE IF io = "ok"
             THEN <<Ev("find_existing_issue", NoBranch, 0), Ev("create_issue", NoBranch, 0)>>
             ELSE <<Ev("find_existing_issue", NoBranch, 0)>>]

\* SimpleProjectManager.create_project_branch: the working copy after
\* GitOperations.create_or_switch_branch(self.feature_branch)
SimpleProjectManager_create_project_branch(project_name, date, fails, local, remote, head) ==
    GitOperations_create_or_switch_branch(get_branch_name(project_name, date), fails,
                                          local, remote, head)

\* SimpleProjectManager.sync_photos_from_cloudinary: the number of photos it
\* can report as new (0 when monitoring is disabled or the sync failed)
SyncedCounts(project_name) == 0..Len(remoteImages[project_name])

\* variant: the photos are synced whether or not the branch was reached
BranchUnavailable_never(branch_ok) == FALSE

\* "if not manager.create_project_branch(): ...; continue"
BranchUnavailable(branch_ok) == ~branch_ok

\* CloudinaryClient(), authenticate, get_construction_projects,
\* _setup_github_manager
ScanStart ==
    /\ pc = "idle"
    /\ runNo < MaxRuns
    /\ runNo' = runNo + 1
    /\ hist' = ResetHist
    /\ \E client_raises \in BOOLEAN, auth \in BOOLEAN, listing_raises \in BOOLEAN,
          github \in BOOLEAN :
          LET construction_projects == IF listing_raises THEN <<>> ELSE listing
              rec == [NoStep EXCEPT !.auth = IF auth THEN "True" ELSE "False"]
              ev0 == <<Ev("CloudinaryClient", NoBranch, 0)>>
              ev1 == ev0 \o <<Ev("authenticate", NoBranch, 0)>>
              ev2 == ev1 \o <<Ev("get_construction_projects", NoBranch, 0)>>
          IN
          IF client_raises
          THEN /\ pc' = "idle" /\ result' = "False" /\ stepLog' = ev0
               /\ step' = [NoStep EXCEPT !.raised = "CloudinaryClient"]
               /\ UNCHANGED <<projects, idx>>
          ELSE IF ~auth
          THEN /\ pc' = "idle" /\ result' = "False" /\ stepLog' = ev1
               /\ step' = rec
               /\ UNCHANGED <<projects, idx>>
          ELSE IF construction_projects = <<>>
          THEN /\ pc' = "idle" /\ result' = "True" /\ stepLog' = ev2
               /\ step' = rec
               /\ projects' = construction_projects
               /\ idx' = 1
          ELSE /\ pc' = "scan" /\ result' = "none" /\ stepLog' = ev2
               /\ step' = [rec EXCEPT !.github = github]
               /\ projects' = construction_projects
               /\ idx' = 1
    /\ UNCHANGED <<envVars, gitVars, fileVars, state, current_projects, last>>

\* one iteration of "for project in projects"
ScanProject ==
    /\ pc = "scan"
    /\ idx <= Len(projects)
    /\ LET project_name == CurrentProject(projects, idx)
           github == step.github
           rec0 == [NoStep EXCEPT !.auth = "True", !.github = github, !.proj = project_name]
           ev0 == <<Ev("SimpleProjectManager", NoBranch, 0)>>
       IN
       \E manager_raises \in BOOLEAN :
       IF manager_raises
       THEN /\ pc' = "idle" /\ result' = "False" /\ stepLog' = ev0
            /\ step' = [rec0 EXCEPT !.raised = "SimpleProjectManager"]
            /\ UNCHANGED <<issues, gitLocal, gitHead, idx, hist>>
       ELSE
       \E io \in HandleIssueOutcomes(github, project_name, issues),
          fails \in WorkflowGitFails :
       LET h == handle_project_issue(io, project_name, issues)
           g == SimpleProjectManager_create_project_branch(project_name, today, fails,
                                                           gitLocal, gitRemote, gitHead)
           rec1 == [rec0 EXCEPT !.issue = io, !.branch = IF g.ok THEN "True" ELSE "False"]
           ev1 == ev0 \o h.log \o <<Ev("create_project_branch", NoBranch, 0)>>
                      \o GitEvs(g.cmds)
       IN
       /\ issues' = h.issues
       /\ gitLocal' = g.local
       /\ gitHead' = g.head
       /\ pc' = "scan"
       /\ result' = result
       /\ idx' = idx + 1
       /\ hist' = [hist EXCEPT !.branch_failed = @ \/ ~g.ok]
       /\ IF BranchUnavailable(g.ok)
          THEN /\ step' = rec1
               /\ stepLog' = ev1
          ELSE \E new_photos \in SyncedCounts(project_name) :
               LET ev2 == ev1 \o <<Ev("sync_photos_from_cloudinary", NoBranch, 0)>>
                   want_comment == new_photos > 0 /\ github /\ h.issue_number > 0
               IN
               \E co \in (IF want_comment THEN {"ok", "err"} ELSE {"none"}) :
               /\ step' = [rec1 EXCEPT !.new_photos = new_photos, !.comment = co,
                                       !.comment_args =
                                           IF want_comment
                                           THEN <<h.issue_number, 0, new_photos>>
                                           ELSE <<>>]
               /\ stepLog' = IF want_comment
                             THEN ev2 \o <<Ev("add_issue_comment", NoBranch, 0)>>
                             ELSE ev2
    /\ UNCHANGED <<listing, remoteImages, today, gitRemote, fileVars, state, projects,
                   current_projects, runNo, last>>

\* after the loop: "Monitoring complete", return True
ScanDone ==
    /\ pc = "scan"
    /\ LoopDone(idx, projects)
    /\ pc' = "idle"
    /\ result' = "True"
    /\ stepLog' = <<>>
    /\ UNCHANGED <<envVars, gitVars, fileVars, state, projects, idx, current_projects, runNo,
                   step, hist, last>>

NextMonitor ==
    \/ RemoteSetListing
    \/ RemoteAddImage
    \/ ScanStart
    \/ ScanProject
    \/ ScanDone

SpecMonitor == Init /\ [][NextMonitor]_vars

(***************************************************************************)
(* Properties                                                              *)
(***************************************************************************)
OpsIn(log) == {log[k].op : k \in 1..Len(log)}
Tracked(st, p) == DOMAIN ImagesOf(st.projects, p)
IterationDone == step.proj # "" /\ step.raised = "none"

\* C1 (Spec): failure isolation. When the commit step of a project raises
\* and another project follows it in the listing, the run is not ended by it:
\* the loop goes on to the next project with the failing project's images map
\* as it was before the run.
C1_FailureIsolation ==
    (step.commit = "raise" /\ idx < Len(projects)) =>
        /\ pc = "loop"
        /\ result # "raise"
        /\ ImagesOf(state.projects, step.proj) = step.pre_images

RepeatedIterationIsNoop ==
    IterationDone =>
        /\ step.diff = <<>>
        /\ OpsIn(stepLog) \cap {"create_or_switch_branch", "git", "download_image",
                                "commit_changes", "add_issue_comment"} = {}
        /\ ImagesOf(state.projects, step.proj) = step.pre_images

\* C3 (Spec), as stated: a run that follows a completed run against an
\* unchanged photo source finds nothing new and calls nothing.
C3_Idempotence == hist.second_orig => RepeatedIterationIsNoop

\* C3 (Spec), amended: a run that follows, against an unchanged photo source,
\* a completed run in which no branch resolution failed finds nothing new,
\* makes no branch, commit or comment call, and saves every images map as the
\* first run saved it.
C3_IdempotenceAfterCleanRun ==
    /\ [](hist.second => RepeatedIterationIsNoop)
    /\ [][hist.second /\ pc = "loop" =>
            \A p \in ProjectNames :
                ImagesOf(load_state'.projects, p) = ImagesOf(load_state.projects, p)]_vars

\* the second of two such runs has gone over a project with tracked images
C3_Witness ==
    /\ hist.second /\ IterationDone
    /\ step.total > 0 /\ step.pre_images # EmptyMap

\* C4 (SpecGit): commit_changes never returns False; it returns True only
\* after "git add" and "git commit" were issued and succeeded, and raises when
\* either fails.
C4_CommitNeverReturnsFalse ==
    last.op = "commit_changes" =>
        /\ last.result \in {"True", "raise"}
        /\ last.result = "True" =>
              /\ {ADD, COMMIT} \subseteq KindsOf(last.cmds)
              /\ last.failed \cap {ADD, COMMIT} = {}
        /\ last.failed \cap {ADD, COMMIT} # {} => last.result = "raise"

C4_Witness ==
    /\ last.op = "commit_changes" /\ last.impl = "GitOperations"
    /\ COMMIT \in last.failed /\ last.result = "raise"

\* C5 (SpecGit): a commit failure inside a sync operation leaves that
\* operation as an error.
C5_CommitFailurePropagates ==
    (/\ last.op \in {"sync_project_photos", "_try_cloud_photo_sync", "_commit_copied_photos"}
     /\ last.commit_failed)
        => last.result = "raise"

\* C6 (Spec): the entries a loop iteration adds to a project's images map
\* are those of images downloaded in that iteration.
C6_OnlyDownloadedRecorded ==
    IterationDone =>
        \A h \in DOMAIN ImagesOf(state.projects, step.proj) \ DOMAIN step.pre_images :
            \E i \in Range(step.downloaded) : Hash(i) = h

\* C7 (SpecGit): when the branch exists locally, create_or_switch_branch
\* issues the local listing and one checkout of the branch, and nothing else
\* (no ls-remote, fetch, pull or creation of main).
C7_LocalBranchOnlyCheckout ==
    (last.op = "create_or_switch_branch" /\ last.exists_locally) =>
        last.cmds = <<Cmd(BRANCH_LIST, last.branch), Cmd(CHECKOUT, last.branch)>>

\* the branch is local and also on origin, and the checkout succeeded
C7_Witness ==
    /\ last.op = "create_or_switch_branch" /\ last.exists_locally
    /\ last.branch \in gitRemote /\ last.result = "True"

\* the commands of a resolution whose failure aborts it
AbortingCmds == BranchCmds \ {BRANCH_LIST, LS_REMOTE, CHECKOUT_MAIN}

\* C8 (SpecGit), as stated: the failure of any command of
\* create_or_switch_branch makes it return False, and the failed command is
\* the last one issued.
C8_AnyFailureAborts ==
    (last.op = "create_or_switch_branch" /\ last.failed # {}) =>
        /\ last.result = "False"
        /\ last.cmds[Len(last.cmds)].cmd \in last.failed
        /\ Cardinality(last.failed) = 1

\* C8 (SpecGit), amended: the failure of a command run with check=True other
\* than "checkout main" makes create_or_switch_branch return False with that
\* command as the last one issued; it returns False in no other case (a
\* failed listing reads as "branch absent", a failed "checkout main" is
\* followed by the fetch of main).
C8_CheckedFailureAborts ==
    last.op = "create_or_switch_branch" =>
        /\ last.result = "False" <=> last.failed \cap AbortingCmds # {}
        /\ last.failed \cap AbortingCmds # {} =>
              /\ last.cmds[Len(last.cmds)].cmd \in AbortingCmds \cap last.failed
              /\ Cardinality(last.failed \cap AbortingCmds) = 1

\* the local listing failed, resolution went on, and the failing pull ended it
C8_Witness ==
    /\ last.op = "create_or_switch_branch"
    /\ BRANCH_LIST \in last.failed /\ PULL_MAIN \in last.failed
    /\ last.result = "False"

\* C9 (Spec), as stated: after a failed branch resolution the project's entry
\* in the state is what it was before the run (absent if it was absent).
C9_BranchFailureLeavesEntry ==
    (IterationDone /\ step.branch = "False") =>
        /\ OpsIn(stepLog) \cap {"download_image", "commit_changes"} = {}
        /\ (step.proj \in DOMAIN state.projects) <=> step.pre_exists
        /\ step.pre_exists => state.projects[step.proj] = load_state.projects[step.proj]
        /\ pc = "loop" /\ idx = Len(current_projects) + 1

\* C9 (Spec), amended: after a failed branch resolution nothing is downloaded
\* or committed for the project, its images map is what it was before the run
\* (empty for a project first seen in this run, whose record is still
\* created), the entry of a project tracked before the run is unchanged, and
\* the loop goes on.
C9_BranchFailureLeavesImages ==
    step.branch = "False" =>
        /\ step.raised = "none"
        /\ OpsIn(stepLog) \cap {"download_image", "commit_changes", "add_issue_comment"} = {}
        /\ step.new_images = <<>>
        /\ ImagesOf(state.projects, step.proj) = step.pre_images
        /\ step.pre_exists => state.projects[step.proj] = load_state.projects[step.proj]
        /\ pc = "loop" /\ result = "none"

\* branch resolution failed for a tracked project that has a new image
C9_Witness ==
    /\ step.branch = "False" /\ step.pre_exists
    /\ step.pre_images # EmptyMap /\ step.diff # <<>>

\* C10 (Spec): a loop iteration whose diff is empty makes no branch
\* resolution, download, commit or comment call and leaves the project's
\* images map as it was.
C10_NoopWithoutNewImages ==
    (IterationDone /\ step.diff = <<>>) =>
        /\ OpsIn(stepLog) \cap {"create_or_switch_branch", "git", "download_image",
                                "commit_changes", "add_issue_comment"} = {}
        /\ ImagesOf(state.projects, step.proj) = step.pre_images

\* a tracked project with an issue and tracked images has nothing new
C10_Witness ==
    /\ IterationDone /\ step.diff = <<>>
    /\ step.total > 0 /\ step.pre_images # EmptyMap
    /\ state.projects[step.proj].issue_number # 0

\* C11 (Spec): when authenticate returns False, run returns False having
\* called nothing but authenticate (no listing, no branch, commit or issue
\* call, no save_state), and the persisted state, the issue tracker and the
\* working copy are as they were.
C11_AuthFailureStopsRun ==
    /\ [](step.auth = "False" =>
            /\ result = "False" /\ pc = "idle"
            /\ OpsIn(stepLog) = {"authenticate"})
    /\ [][step'.auth = "False" =>
            /\ fileExists' = fileExists /\ fileState' = fileState
            /\ load_state' = load_state
            /\ issues' = issues
            /\ gitLocal' = gitLocal /\ gitHead' = gitHead]_vars

\* authentication fails in a run that follows a run which saved a project
C11_Witness ==
    /\ step.auth = "False" /\ runNo = 2 /\ result = "False"
    /\ fileExists /\ DOMAIN load_state.projects # {}

\* a failure met while processing the project of the last loop iteration: the
\* issue tracker refused or failed, the branch could not be resolved, a
\* download returned nothing, or the commit failed
ProjectFailure ==
    /\ step.proj # ""
    /\ \/ step.issue \in {"perm", "err"}
       \/ step.branch = "False"
       \/ Len(step.downloaded) < Len(DownloadCalls(step.diff)) /\ step.branch = "True"
       \/ step.commit = "raise"
       \/ step.comment \in {"perm", "err"}

\* C12 (Spec): no failure met while processing a project stops the run: the
\* loop goes on (to the next project or to the final save) and the run does
\* not end by an exception.
C12_ProjectFailureNeverStopsRun ==
    ProjectFailure => (pc = "loop" /\ result = "none" /\ step.raised = "none")

\* the numbers of the issues created for a project
IssuesOf(p) == {k \in 1..Len(issues) : issues[k] = p}

\* C13 (Spec): over any sequence of runs at most one issue is created per
\* project: create_issue is not called for a project that has an issue.
C13_AtMostOneIssuePerProject ==
    \A p \in ProjectNames : Cardinality(IssuesOf(p)) <= 1

\* C14 (Spec): when create_issue is refused with a permission error for a
\* new project, the project is still synced in the same iteration: its record
\* is created with no issue number, its images are listed, its new photos are
\* recorded when the branch is resolved, no comment is posted, and the loop
\* goes on.
C14_PermissionDeniedKeepsSync ==
    step.issue = "perm" =>
        /\ step.is_new
        /\ step.raised # "create_issue"
        /\ "get_project_images" \in OpsIn(stepLog)
        /\ step.raised = "none" =>
              /\ pc = "loop" /\ result = "none"
              /\ step.proj \in DOMAIN state.projects
              /\ state.projects[step.proj].issue_number = 0
              /\ step.proj \in DOMAIN current_projects
              /\ step.branch = "True" => step.new_images = step.diff
              /\ Tracked(state, step.proj) = {Hash(i) : i \in Range(step.new_images)}
              /\ "add_issue_comment" \notin OpsIn(stepLog)

\* a new project whose issue was refused has had its photos committed and
\* recorded, and another project follows
C14_Witness ==
    /\ step.issue = "perm" /\ IterationDone
    /\ step.commit = "True" /\ Tracked(state, step.proj) # {}
    /\ idx <= Len(projects)

\* a loop iteration has gone over a project that was persisted with no
\* issue number
UnlinkedProjectProcessed ==
    /\ IterationDone /\ step.pre_exists
    /\ load_state.projects[step.proj].issue_number = 0

\* C15 (Spec): a project tracked with no issue number gets its issue number
\* in a later run.
C15_LazyIssueLinkage ==
    UnlinkedProjectProcessed => state.projects[step.proj].issue_number # 0

\* C16 (Spec): a failure of add_issue_comment, of any kind, is swallowed: the
\* iteration ends normally, the new images of the project are in the state,
\* and the loop goes on.
C16_CommentFailureSwallowed ==
    step.comment \in {"perm", "err"} =>
        /\ step.raised = "none"
        /\ pc = "loop" /\ result = "none"
        /\ {Hash(i) : i \in Range(step.new_images)} \subseteq Tracked(state, step.proj)

\* the branches the last loop iteration resolved or committed to
BranchesUsed ==
    {stepLog[k].branch : k \in {j \in 1..Len(stepLog) :
                                  stepLog[j].op \in {"create_or_switch_branch", "commit_changes"}}}

\* C17 (Spec): the branch a loop iteration resolves and commits to is the
\* branch_name stored in the project's record.
C17_BranchNeverRecomputed ==
    IterationDone =>
        \A b \in BranchesUsed : b = state.projects[step.proj].branch_name

\* the fields of a record that are set when it is created
Created(rec) == [project_id |-> rec.project_id, branch_name |-> rec.branch_name,
                 created_at |-> rec.created_at]

C19_SingleSaveAtEnd ==
    /\ [](pc = "loop" => hist.saves = 0)
    /\ [][(fileExists' # fileExists \/ fileState' # fileState \/ hist'.saves > hist.saves) =>
            /\ pc = "loop" /\ pc' = "idle" /\ result' = "True"
            /\ idx = Len(projects) + 1
            /\ DOMAIN current_projects = Range(projects)
            /\ hist.saves = 0 /\ hist'.saves = 1
            /\ "save_state" \in OpsIn(stepLog')
            /\ load_state'.last_scan = today
            /\ DOMAIN load_state'.projects = Range(projects)]_vars

\* the second run has saved after going over a listing of two projects
C19_Witness ==
    /\ runNo = 2 /\ pc = "idle" /\ result = "True" /\ hist.saves = 1
    /\ Len(projects) = 2 /\ DOMAIN load_state.projects = Range(projects)

C21_HashSensitiveToIdAndUrl ==
    last.op = "generate_image_hash" =>
        /\ last.args[1] = last.args[2] => last.out[1] = last.out[2]
        /\ (last.args[1].id # last.args[2].id \/ last.args[1].url # last.args[2].url)
              => last.out[1] # last.out[2]

\* C21 (SpecFn), amended: equal records get equal fingerprints, and two
\* records that differ in exactly one of id, url and datetime get different
\* fingerprints.
C21_HashSensitiveToOneField ==
    last.op = "generate_image_hash" =>
        /\ last.args[1] = last.args[2] => last.out[1] = last.out[2]
        /\ Cardinality({f \in {"id", "url", "datetime"} :
                           last.args[1][f] # last.args[2][f]}) = 1
              => last.out[1] # last.out[2]

\* two records with the same id and datetime and different urls were hashed
C21_Witness ==
    /\ last.op = "generate_image_hash"
    /\ last.args[1].id = last.args[2].id /\ last.args[1].datetime = last.args[2].datetime
    /\ last.args[1].url # last.args[2].url /\ last.out[1] # last.out[2]

\* seq lists, in the order of the sequence all, those elements of all that
\* satisfy keep (all without repetition)
IsSelectionOf(seq, all, keep) ==
    /\ Range(seq) = {x \in Range(all) : x \in keep}
    /\ Len(seq) = Cardinality(Range(seq))
    /\ \A j, k \in 1..Len(seq) :
          j < k => \E m, n \in 1..Len(all) : m < n /\ all[m] = seq[j] /\ all[n] = seq[k]

\* C22 (Spec): the new images of a loop iteration are exactly the listed
\* images whose fingerprint was not tracked, in listing order; the total is
\* the number of listed images; a tracked image that is no longer listed is
\* neither new nor removed from the images map.
C22_ChangeDetection ==
    IterationDone =>
        LET current == remoteImages[step.proj]
            untracked == {i \in ImageIds : Hash(i) \notin DOMAIN step.pre_images}
        IN  /\ IsSelectionOf(step.diff, current, untracked)
            /\ step.total = Len(current)
            /\ \A h \in DOMAIN step.pre_images :
                  /\ h \in Tracked(state, step.proj)
                  /\ state.projects[step.proj].images[h] = step.pre_images[h]

\* two new images were found in listing order
C22_Witness ==
    /\ IterationDone /\ Len(step.diff) = 2 /\ step.total = 2
    /\ step.diff = remoteImages[step.proj]

\* a tracked image is no longer listed
C22_WitnessUnlisted ==
    /\ IterationDone
    /\ \E h \in DOMAIN step.pre_images :
          \A i \in Range(remoteImages[step.proj]) : Hash(i) # h

\* the fingerprints of the images listed for a project
ListedHashes(p) == {Hash(i) : i \in Range(remoteImages[p])}

OneOfTwoTracked ==
    /\ IterationDone
    /\ Cardinality(DOMAIN step.pre_images) = 1
    /\ Len(remoteImages[step.proj]) = 2
    /\ DOMAIN step.pre_images \subseteq ListedHashes(step.proj)

PositionsOf(log, ops) == {k \in 1..Len(log) : log[k].op \in ops}

\* every call of ops1 in the log comes before every call of ops2
AllBefore(log, ops1, ops2) ==
    \A i \in PositionsOf(log, ops1), j \in PositionsOf(log, ops2) : i < j

\* C25 (Spec): within one run the projects are processed one at a time in
\* listing order: the idx-th iteration resolves, downloads to and commits on
\* the branch of the idx-th listed project only, in that order, and has put
\* that project's record into the state before the next iteration begins; the
\* working tree is on that project's branch, on main, or where it was.
C25_SequentialProcessing ==
    [][(pc = "loop" /\ idx <= Len(projects)) =>
        LET p == projects[idx]
            b == get_branch_name(p, today)
        IN  /\ step'.proj = p
            /\ \A k \in PositionsOf(stepLog', {"create_or_switch_branch", "download_image",
                                                "commit_changes"}) :
                   stepLog'[k].branch = b
            /\ AllBefore(stepLog', {"create_issue"}, {"get_project_images"})
            /\ AllBefore(stepLog', {"get_project_images"}, {"create_or_switch_branch"})
            /\ AllBefore(stepLog', {"create_or_switch_branch"}, {"download_image"})
            /\ AllBefore(stepLog', {"create_or_switch_branch", "download_image"},
                          {"commit_changes"})
            /\ AllBefore(stepLog', {"create_or_switch_branch", "download_image",
                                    "commit_changes", "git"}, {"add_issue_comment"})
            /\ gitHead' \in {gitHead, Main, b}
            /\ IF pc' = "loop"
               THEN /\ idx' = idx + 1
                    /\ DOMAIN current_projects' = {projects[k] : k \in 1..idx}
                    /\ current_projects'[p] = state'.projects[p]
               ELSE result' = "raise"]_vars

\* the second listed project has been resolved and committed after the first
\* one was, each on its own branch
C25_Witness ==
    /\ pc = "loop" /\ idx = 3 /\ runNo = 1
    /\ step.proj = projects[2] /\ projects[1] # projects[2]
    /\ step.commit = "True"
    /\ gitHead = get_branch_name(projects[2], today)
    /\ ImagesOf(current_projects, projects[1]) # EmptyMap
    /\ get_branch_name(projects[1], today) \in gitLocal

\* the command lines of the last call, in the order they were issued
KindSeq == [k \in 1..Len(last.cmds) |-> last.cmds[k].cmd]

\* the last call is GitOperations.create_or_switch_branch
ResolvedByGitOperations ==
    last.op = "create_or_switch_branch" /\ last.impl = "GitOperations"

\* what the two listings of the last call answered: the branch was in the
\* working copy (on origin) and the listing did not fail
AnsweredLocal == last.args[1].local /\ BRANCH_LIST \notin last.failed
AnsweredRemote == last.args[1].remote /\ LS_REMOTE \notin last.failed

\* the last call took the create-from-main path
CreatePath == ResolvedByGitOperations /\ ~AnsweredLocal /\ ~AnsweredRemote

\* the parts of the order that do not depend on a command failing
FixedOrderCommon ==
    ResolvedByGitOperations =>
        /\ KindSeq[1] = BRANCH_LIST
        /\ LS_REMOTE \in KindsOf(last.cmds) <=> ~AnsweredLocal
        /\ AnsweredLocal => KindSeq = <<BRANCH_LIST, CHECKOUT>>
        /\ ~AnsweredLocal => KindSeq[2] = LS_REMOTE
        /\ (~AnsweredLocal /\ AnsweredRemote) =>
              /\ KindSeq[3] = FETCH
              /\ KindSeq = <<BRANCH_LIST, LS_REMOTE, FETCH, CHECKOUT_TRACK>>
                    \/ (Len(KindSeq) = 3 /\ FETCH \in last.failed)
        /\ KindsOf(last.cmds) \cap {CHECKOUT_MAIN, FETCH_MAIN, CHECKOUT_B_MAIN, PULL_MAIN,
                                     CHECKOUT_B} # {} => CreatePath
        /\ CreatePath =>
              /\ KindSeq[3] = CHECKOUT_MAIN
              /\ FETCH_MAIN \in KindsOf(last.cmds) <=> CHECKOUT_MAIN \in last.failed
              /\ CHECKOUT_B_MAIN \in KindsOf(last.cmds) => KindSeq[5] = CHECKOUT_B_MAIN
              /\ FETCH_MAIN \in KindsOf(last.cmds) => KindSeq[4] = FETCH_MAIN
              /\ CHECKOUT_B \in KindsOf(last.cmds) =>
                    /\ KindSeq[Len(KindSeq)] = CHECKOUT_B
                    /\ KindSeq[Len(KindSeq) - 1] = PULL_MAIN

\* C26 as stated (SpecGit): branch resolution follows the order local,
\* remote, create-from-main, and create-from-main always issues
\* 'pull origin main' after main was checked out or fetched.
C26_FixedOrderAlwaysPulls ==
    /\ FixedOrderCommon
    /\ CreatePath => PULL_MAIN \in KindsOf(last.cmds)

\* C26 (SpecGit): branch resolution follows the order local, remote,
\* create-from-main: the remote listing is made only when the branch is not
\* local; the remote path is fetch then a tracking checkout; create-from-main
\* runs only when the branch is neither local nor remote, tries 'checkout
\* main' first, fetches main and creates it only if that checkout failed,
\* follows with 'pull origin main' unless that fetch or creation failed, and
\* creates the project branch, as its last command, unless the pull failed
\* too.
C26_FixedOrder ==
    /\ FixedOrderCommon
    /\ CreatePath =>
          /\ PULL_MAIN \in KindsOf(last.cmds)
                <=> last.failed \cap {FETCH_MAIN, CHECKOUT_B_MAIN} = {}
          /\ CHECKOUT_B \in KindsOf(last.cmds)
                <=> last.failed \cap {FETCH_MAIN, CHECKOUT_B_MAIN, PULL_MAIN} = {}
          /\ PULL_MAIN \in KindsOf(last.cmds) =>
                KindSeq[IF CHECKOUT_MAIN \in last.failed THEN 6 ELSE 4] = PULL_MAIN

\* main was missing, was fetched and created, pulled, and the project branch
\* was created from it
C26_Witness ==
    /\ CreatePath /\ last.result = "True"
    /\ KindSeq = <<BRANCH_LIST, LS_REMOTE, CHECKOUT_MAIN, FETCH_MAIN, CHECKOUT_B_MAIN,
                   PULL_MAIN, CHECKOUT_B>>

\* the branch was on origin only and was fetched and checked out
C26_WitnessRemote ==
    /\ ResolvedByGitOperations /\ last.result = "True"
    /\ KindSeq = <<BRANCH_LIST, LS_REMOTE, FETCH, CHECKOUT_TRACK>>

\* C28 (SpecFn): GitHubManager._api_request returns the response body for
\* status 200 or 201, raises PermissionError for status 403, and raises a
\* generic error that is not a PermissionError for every other status.
C28_ApiRequestStatusMapping ==
    last.op = "_api_request" =>
        LET response == last.args[1]
            res == last.out[1]
        IN  /\ response.status_code \in {200, 201} =>
                  res.raised = "none" /\ res.value = response.json
            /\ response.status_code = 403 => res.raised = "PermissionError"
            /\ response.status_code \notin {200, 201, 403} => res.raised = "Exception"

\* a 403 answer has raised PermissionError
C28_Witness ==
    /\ last.op = "_api_request"
    /\ last.args[1].status_code = 403
    /\ last.out[1].raised = "PermissionError"

\* a 404 answer has raised the generic exception
C28_WitnessOther ==
    /\ last.op = "_api_request"
    /\ last.args[1].status_code = 404
    /\ last.out[1].raised = "Exception"

\* a slug: one or more letters, digits, hyphens and underscores
IsSlug(chars) == Len(chars) > 0 /\ AllIn(chars, SlugClass)

\* C27 (SpecFn): every project name that run inserts as a key of
\* state["projects"] is a slug; a listed project whose name has any other
\* character is not accepted into the state.
C27_OnlySlugsInState ==
    last.op = "run" =>
        \A project_name \in last.out[2] : IsSlug(CharsOf(project_name))

\* C29 (SpecFn): start_project rejects a project name that is empty or has a
\* character other than letters, digits, hyphen and underscore: it returns
\* False and creates no branch, sets up no directory and makes no commit.
C29_InvalidNameRejected ==
    (last.op = "start_project" /\ ~IsSlug(CharsOf(last.args[1]))) =>
        /\ last.out[1] = "False"
        /\ last.out[2] = <<>>

\* C30 (SpecMonitor): scan_and_sync_projects returns False when the
\* authentication fails or an exception escapes the scan, and True otherwise;
\* when create_project_branch fails for a project, the photos of that project
\* are not synced and no comment is posted, the scan goes on with the next
\* listed project, and it still returns True.
C30_ScanFailureHandling ==
    /\ []((pc = "idle" /\ result # "none") =>
            (result = "False" <=> (step.auth = "False" \/ step.raised # "none")))
    /\ [][(pc = "scan" /\ idx <= Len(projects) /\ step'.branch = "False") =>
            /\ step'.proj = projects[idx]
            /\ OpsIn(stepLog') \cap {"sync_photos_from_cloudinary", "add_issue_comment"} = {}
            /\ pc' = "scan" /\ idx' = idx + 1 /\ result' = "none"]_vars
    /\ [][(pc = "scan" /\ pc' = "idle" /\ step.raised = "none" /\ step'.raised = "none") =>
            result' = "True"]_vars

\* the scan returned True after the branch of the first of two projects could
\* not be reached and the photos of the second were synced and commented
C30_Witness ==
    /\ pc = "idle" /\ result = "True"
    /\ Len(projects) = 2 /\ idx = 3
    /\ hist.branch_failed
    /\ step.proj = projects[2] /\ step.branch = "True"
    /\ step.new_photos > 0 /\ step.comment = "ok"

\* the scan returned False because the authentication failed
C30_WitnessAuth ==
    /\ pc = "idle" /\ result = "False" /\ step.auth = "False"
    /\ OpsIn(stepLog) = {"CloudinaryClient", "authenticate"}

\* C31 (Spec): when the enumeration of the remote projects raises, run
\* returns False, no project is processed and save_state is never called:
\* the only collaborator calls of the run are authenticate, load_state and
\* get_construction_projects, and the state file is left alone.
C31_ListingFailureStopsRun ==
    hist.listing = "raise" =>
        /\ pc = "idle" /\ result = "False"
        /\ OpsIn(stepLog) = {"authenticate", "load_state", "get_construction_projects"}
        /\ step.proj = "" /\ hist.saves = 0

\* the second run failed to enumerate the projects after a first run had
\* saved a state with a tracked project
C31_Witness ==
    /\ hist.listing = "raise" /\ runNo = 2 /\ result = "False"
    /\ fileExists /\ Tracked(load_state, "pa") # {}

\* C32 (Spec): a run that returns False or ends by raising leaves the state
\* file exactly as it was before the run; the only step of a run that writes
\* the file is the one that makes the run return True, and what it writes is
\* the complete record of every project the run has processed.
C32_FailedRunSavesNothing ==
    /\ [][(runNo' # runNo \/ pc = "loop") =>
            \/ /\ UNCHANGED fileVars
               /\ hist'.saves = 0
            \/ /\ pc' = "idle" /\ result' = "True"
               /\ load_state'.projects = current_projects
               /\ \A k \in 1..(idx - 1) : projects[k] \in DOMAIN load_state'.projects]_vars
    /\ []((pc = "idle" /\ result \in {"False", "raise"}) => hist.saves = 0)

\* the second run ended by raising in the iteration of its second project,
\* after its first project had been processed, and the file
\* still holds what the first run saved
C32_Witness ==
    /\ runNo = 2 /\ pc = "idle" /\ result = "raise"
    /\ idx = 2 /\ Len(projects) = 2
    /\ fileExists /\ hist.saves = 0
    /\ step.proj = projects[2]

\* C33 (Spec): every image a run has committed is in the persisted ledger
\* before the next run starts, also when the run ended abnormally after the
\* commit had succeeded, so that no later run downloads and commits it again.
C33_CommittedImagesPersisted ==
    (pc = "idle" /\ step.commit = "True") =>
        \A i \in Range(step.downloaded) : Hash(i) \in Tracked(load_state, step.proj)

\* C34 (Spec): add_issue_comment is called for a project only after a
\* commit for that project has succeeded in the same loop iteration; when
\* none of the new images of a project could be downloaded, nothing is
\* committed, no comment is posted and the ledger of the project gets no
\* new entry.
C34_CommentOnlyAfterCommit ==
    /\ step.comment # "none" => step.commit = "True"
    /\ (IterationDone /\ step.diff # <<>> /\ step.downloaded = <<>>) =>
          /\ step.comment = "none"
          /\ Tracked(state, step.proj) = DOMAIN step.pre_images

\* C35 (Spec): whenever commit_changes is invoked for a project during a
\* sync, the branch resolution of that project has succeeded and the working
\* tree is on the branch of that project: never on main, never on the branch
\* of another project.
C35_CommitOnProjectBranch ==
    \A k \in 1..Len(stepLog) :
        stepLog[k].op = "commit_changes" =>
            /\ step.branch = "True"
            /\ gitHead = stepLog[k].branch
            /\ gitHead # Main
            /\ gitHead.name = step.proj

\* the commit of the second listed project was made on its own branch, the
\* branch of the first project being in the repository as well
C35_Witness ==
    /\ Len(projects) = 2 /\ step.proj = projects[2] /\ step.commit = "True"
    /\ "commit_changes" \in OpsIn(stepLog)
    /\ gitHead.name = projects[2]
    /\ \E b \in gitLocal : b # Main /\ b.name = projects[1]

\* C36 (Spec): after a run that returned True, the keys of the persisted
\* projects map are exactly the project names of that run's listing: every
\* listed project has an entry, and a project tracked before the run that
\* the listing no longer names has none.
C36_PersistedKeysAreListing ==
    (pc = "idle" /\ result = "True") =>
        /\ fileExists
        /\ \A k \in 1..Len(projects) : projects[k] \in DOMAIN load_state.projects
        /\ \A p \in DOMAIN load_state.projects : \E k \in 1..Len(projects) : projects[k] = p

\* the first run, on day 1, saved records for pa and pb; the second run, on
\* day 2, returned True with pa alone listed: pa's record of day 1 is carried
\* over and pb is gone from the state file
C36_Witness ==
    /\ pc = "idle" /\ result = "True" /\ runNo = 2 /\ today = 2
    /\ hist.first["pb"] = 1
    /\ projects = <<"pa">>
    /\ DOMAIN load_state.projects = {"pa"}
    /\ load_state.projects["pa"].created_at = 1

\* C37 (SpecGit): the local existence test that sends create_or_switch_branch
\* down the local-checkout path answers yes for a branch name b only if a
\* local branch named exactly b exists; a local branch whose name contains b
\* as a substring does not count.
C37_ExactLocalMatch ==
    last.op = "branch_exists_locally" =>
        (last.out[1] => \E k \in 1..Len(last.args[2]) : last.args[2][k] = last.args[1])

\* the test answered no for "ab" in a repository whose branches are "ab-x"
\* and "project-ab"
C37_Witness ==
    /\ last.op = "branch_exists_locally"
    /\ last.args = <<"ab", <<"ab-x", "project-ab">>>>
    /\ last.out = <<FALSE>>

\* C38 (SpecGit): GitManager and GitOperations are equivalent: called in the
\* same repository and with the same outcomes of the git commands they issue
\* the same sequence of commands and give the same result, for
\* create_or_switch_branch and for commit_changes.
C38_ImplementationsEquivalent ==
    last.impl = "both" => last.out[1] = last.out[2]

\* the two create_or_switch_branch agree on every outcome of the commands
C38_BranchResolutionEquivalent ==
    last.op = "both.create_or_switch_branch" => last.out[1] = last.out[2]

\* C39 (SpecLive): provided every collaborator call returns or raises, every
\* run terminates; the processing of each listed project is started at most
\* once (the loop takes the entries of the listing one after the other, each
\* iteration moving on to the next position or ending the run), and no
\* failed step is tried again (no call is made twice in an iteration).
C39_RunTerminates ==
    /\ (pc = "loop") ~> (pc = "idle")
    /\ [][pc = "loop" =>
            /\ \/ pc' = "loop" /\ idx' = idx + 1 /\ idx <= Len(projects)
                     /\ step'.proj = projects[idx]
               \/ pc' = "idle" /\ result' \in {"True", "raise"}
            /\ \A j, k \in 1..Len(stepLog') : j # k => stepLog'[j] # stepLog'[k]]_vars

\* a run over two listed projects has ended after the branch of the first
\* could not be resolved
C39_Witness ==
    /\ pc = "idle" /\ result = "True" /\ Len(projects) = 2 /\ idx = 3
    /\ hist.branch_failed

====
